---- MODULE Spec2Model ----
(***************************************************************************)
(* Control plane of the Comet MCP bridge (src/src/types.ts): the           *)
(* completion detector (CometAI), the tab registry and the connection      *)
(* manager (CometCDPClient), and the tool handlers that drive them.        *)
(*                                                                         *)
(* Strings are modelled by what the code does with them:                   *)
(*  - a response text is a record [id, len]: equality of texts is equality *)
(*    of the records, length is .len;                                      *)
(*  - a URL, a domain or an error message is a sequence of tokens, and     *)
(*    String.includes / startsWith are contiguous-subsequence / prefix     *)
(*    tests on the tokens.                                                 *)
(* Each component has its own specification over the shared variables:     *)
(*   SpecStatus    completion detector (getAgentStatus polls)              *)
(*   SpecRules     the same polls, the signals of each page kept           *)
(*   SpecExtract   the response extraction on page texts                   *)
(*   SpecTabs      tool handlers on tabs                                   *)
(*   SpecClose     comet_tabs close with any tabId argument                *)
(*   SpecRegistry  refreshes of the tab registry                           *)
(*   SpecRefresh   refreshes and setTabPurpose calls on the registry       *)
(*   SpecConn      withAutoReconnect calls                                 *)
(*   SpecHealth    isConnectionHealthy calls                               *)
(*   SpecHealthSession  isConnectionHealthy calls as sessions come and go  *)
(*   SpecFind      findTabByDomain queries                                 *)
(*   SpecRegistryOps  every operation on the tab registry                  *)
(*   SpecSession   connect, disconnect, reconnect, comet_stop              *)
(*   SpecAsk       comet_ask calls; SpecAskFair adds fairness              *)
(*   SpecOverlap   two overlapping withAutoReconnect calls                 *)
(*   SpecSend      sendPrompt calls                                        *)
(***************************************************************************)
EXTENDS Integers, Sequences, FiniteSets, TLC

VARIABLES
  op,                  \* the call that ran last, "environment" once the browser or
                       \* the clock has moved after it
  \* ---- the browser (environment) ----
  targets,             \* tab id -> [type, url] of the open target, or Closed
  \* ---- CometCDPClient ----
  client,              \* target id the CDP session is attached to, 0 = null
  connected,           \* state.connected
  activeTabId,         \* state.activeTabId, 0 = undefined
  lastTargetId,        \* lastTargetId, 0 = undefined
  reconnectAttempts,   \* reconnectAttempts
  tabRegistry,         \* Map<string, TabContext>, in insertion order
  isReconnecting,      \* isReconnecting
  healthCheckCache,    \* healthCheckCache
  healthAge,           \* Date.now() - lastHealthCheck, capped at the cache lifetime
  \* ---- the withAutoReconnect call in progress, and what it has done ----
  pc,                  \* where the call stands, "idle" between calls
  wr,                  \* invocations, errors and outcome of the call in progress or just ended
  \* ---- the isConnectionHealthy calls made so far ----
  sinceCall,           \* time since the last call began, capped
  sinceRefresh,        \* time since a call last refreshed the cache, capped
  sinceProbe,          \* time since a call last sent a probe, capped
  hcLast,              \* what the last call found and did
  \* ---- what the last tool call did ----
  isError,             \* the call returned an isError result
  countChecked,        \* external-tab count its close guard found, -1 = no check
  closeCalls,          \* target ids it passed to closeTab
  protected,           \* an external tab was open when the application last acted
  \* ---- calls of the client and of comet_ask ----
  ret,                 \* what the last client call returned, NoRet once the browser
                       \* has moved after it
  ask,                 \* the comet_ask call in progress or just ended
  calls,               \* overlapping withAutoReconnect calls: where each one stands
  send,                \* the sendPrompt call in progress or just ended
  \* ---- CometAI (completion detector) ----
  lastResponseText,    \* CometAI.lastResponseText
  stableResponseCount, \* CometAI.stableResponseCount
  pageText,            \* the response text the page showed at the last poll
  page,                \* the signals the page showed at the last poll, where the
                       \* polls are followed signal by signal (SpecRules)
  inPageStatus,        \* statusResult.status of the last poll, before the override
  agentStatus          \* the AgentStatus returned by the last getAgentStatus

aiVars == <<lastResponseText, stableResponseCount, pageText, page, inPageStatus, agentStatus>>
browserVars == <<targets>>
connVars == <<client, connected, activeTabId, lastTargetId, reconnectAttempts>>
callVars == <<isError, countChecked, closeCalls, protected>>
healthVars == <<healthCheckCache, healthAge>>
retryVars == <<isReconnecting, pc, wr>>
hcVars == <<sinceCall, sinceRefresh, sinceProbe, hcLast>>
mgrVars == <<healthVars, retryVars, hcVars>>
reqVars == <<ret, ask, calls, send>>
vars == <<op, browserVars, connVars, tabRegistry, callVars, aiVars, mgrVars, reqVars>>

Min(a, b) == IF a < b THEN a ELSE b

(***************************************************************************)
(* Strings as token sequences                                              *)
(***************************************************************************)
\* String.prototype.includes
Includes(s, t) ==
  \E i \in 0..(Len(s) - Len(t)) : SubSeq(s, i + 1, i + Len(t)) = t

\* String.prototype.startsWith
StartsWith(s, t) == Len(t) <= Len(s) /\ SubSeq(s, 1, Len(t)) = t

U_Empty      == <<>>
U_Blank      == <<"about:blank">>
U_NewTab     == <<"chrome://", "newtab">>
U_Extension  == <<"chrome-extension://", "abc", "/overlay">>
U_DevTools   == <<"devtools://", "devtools">>
U_Perplexity == <<"https://", "www.", "perplexity.ai", "/">>
U_Shop       == <<"https://", "shop.example", "/item">>
U_GitHub     == <<"https://", "git", "hub.com", "/trending">>
U_Hub        == <<"https://", "hub.com", "/">>

InternalUrls == {U_Empty, U_Blank, U_NewTab, U_Extension, U_DevTools, U_Perplexity}
ExternalUrls == {U_Shop, U_GitHub}
Urls == InternalUrls \cup ExternalUrls

Schemes == {"https://", "chrome://", "chrome-extension://", "devtools://"}
PathTokens == {"/", "/item", "/trending", "/overlay"}

\* new URL(url).hostname, 'unknown' when the URL does not parse.
extractDomain(url) ==
  IF url = U_Empty THEN <<"unknown">>
  ELSE IF url[1] \notin Schemes THEN <<>>
  ELSE SelectSeq(Tail(url), LAMBDA tok : tok \notin PathTokens)

isInternalTab_ChromeOnly(url) ==
  \/ StartsWith(url, <<"chrome://">>)
  \/ StartsWith(url, <<"chrome-extension://">>)
  \/ StartsWith(url, <<"devtools://">>)

isInternalTab(url) ==
  \/ StartsWith(url, <<"chrome://">>)
  \/ StartsWith(url, <<"chrome-extension://">>)
  \/ StartsWith(url, <<"devtools://">>)
  \/ url = U_Blank
  \/ url = U_Empty
  \/ Includes(url, <<"perplexity.ai">>)

inferPurpose(url) ==
  IF isInternalTab(url) THEN "unknown"
  ELSE IF Includes(url, <<"perplexity.ai">>) THEN "main"
  ELSE "agent-browsing"

(***************************************************************************)
(* The browser: targets and their listing                                  *)
(***************************************************************************)
\* Number of targets the browser is followed to.
MaxTabs == 2

TabIds == 1..MaxTabs

Closed == [type |-> "closed", url |-> U_Empty]

\* A page on any URL, or a service worker of an external site.
OpenTargets ==
  [type : {"page"}, url : Urls] \cup {[type |-> "service_worker", url |-> U_Shop]}

\* The pages of a session driven through the tools: blank tabs, the
\* Perplexity UI and pages of one external site.
ToolUrls == {U_Blank, U_Perplexity, U_Shop}
ToolTargets == [type : {"page"}, url : ToolUrls]

\* The pages reconnect() tells apart: a blank tab and the Perplexity UI.
ConnTargets == [type : {"page"}, url : {U_Blank, U_Perplexity}]

IsOpen(tg, id) == id \in TabIds /\ tg[id] # Closed

RECURSIVE ListFrom(_, _)
ListFrom(tg, id) ==
  IF id > MaxTabs THEN <<>>
  ELSE IF tg[id] = Closed THEN ListFrom(tg, id + 1)
  ELSE <<[id |-> id, type |-> tg[id].type, url |-> tg[id].url]>> \o ListFrom(tg, id + 1)

\* listTargets(): the open targets, in the browser's order.
listTargets(tg) == ListFrom(tg, 1)

IsPage(t) == t.type = "page"

\* Number of open external browsing tabs.
ExternalOpen(tg) ==
  Cardinality({id \in TabIds : tg[id].type = "page" /\ ~isInternalTab(tg[id].url)})

BrowserInit == targets = [id \in TabIds |-> Closed]

(***************************************************************************)
(* Tab registry                                                            *)
(***************************************************************************)
RegIds(reg) == {reg[i].id : i \in 1..Len(reg)}

RegIndex(reg, id) == CHOOSE i \in 1..Len(reg) : reg[i].id = id

\* One iteration of the loop over the listing.
RefreshOne(reg, t) ==
  IF ~IsPage(t) \/ isInternalTab(t.url) THEN reg
  ELSE IF t.id \in RegIds(reg)
       THEN [reg EXCEPT ![RegIndex(reg, t.id)] =
               [@ EXCEPT !.url = t.url, !.domain = extractDomain(t.url)]]
       ELSE Append(reg, [id |-> t.id, url |-> t.url, domain |-> extractDomain(t.url),
                         purpose |-> inferPurpose(t.url)])

RECURSIVE RefreshLoop(_, _)
RefreshLoop(reg, list) ==
  IF list = <<>> THEN reg ELSE RefreshLoop(RefreshOne(reg, Head(list)), Tail(list))

existingIds(list) ==
  {list[i].id : i \in {j \in 1..Len(list) : IsPage(list[j]) /\ ~isInternalTab(list[j].url)}}

refreshTabRegistry_NoEviction(reg, tg) == RefreshLoop(reg, listTargets(tg))

\* refreshTabRegistry(): the registry after the call.
refreshTabRegistry(reg, tg) ==
  SelectSeq(RefreshLoop(reg, listTargets(tg)),
            LAMBDA e : e.id \in existingIds(listTargets(tg)))

\* findTabByDomain on a refreshed registry: index of the first match, 0 = null.
findTabByDomain(reg, domain) ==
  LET hits == {i \in 1..Len(reg) :
                 Includes(reg[i].domain, domain) \/ Includes(domain, reg[i].domain)}
  IN  IF hits = {} THEN 0 ELSE CHOOSE i \in hits : \A j \in hits : i <= j

(***************************************************************************)
(* Connection: connect / disconnect as used by the tool handlers           *)
(***************************************************************************)
ClientInit ==
  /\ client = 0
  /\ connected = FALSE
  /\ activeTabId = 0
  /\ lastTargetId = 0
  /\ reconnectAttempts = 0
  /\ tabRegistry = <<>>

\* An error object: its message and the invocation of the operation that
\* threw it, 0 when reconnect() threw it.
Error(msg, at) == [msg |-> msg, at |-> at]
NoError == Error(<<>>, -1)

\* Record of a call: invocations of the operation, reconnect() calls made
\* in all and made after the operation first ran, the error the first
\* invocation threw, the error held as reconnectError, and the outcome.
WrIdle ==
  [opCalls |-> 0, reconnects |-> 0, reconnectsAfterOp |-> 0, error |-> NoError,
   reconnectError |-> NoError, result |-> "none", thrown |-> NoError]

CallInit ==
  /\ isError = FALSE
  /\ countChecked = -1
  /\ closeCalls = {}
  /\ protected = FALSE

\* No client call observed yet.
NoRet == [kind |-> "none"]

\* The connection fields of the client as one record.
Conn ==
  [client |-> client, connected |-> connected, activeTabId |-> activeTabId,
   lastTargetId |-> lastTargetId, reconnectAttempts |-> reconnectAttempts]

SetConn(c) ==
  /\ client' = c.client
  /\ connected' = c.connected
  /\ activeTabId' = c.activeTabId
  /\ lastTargetId' = c.lastTargetId
  /\ reconnectAttempts' = c.reconnectAttempts

\* disconnect()
disconnect(c) ==
  IF c.client # 0
  THEN [c EXCEPT !.client = 0, !.connected = FALSE, !.activeTabId = 0]
  ELSE c

\* How a connect() ends: it returns, CDP() rejects, enabling a domain
\* rejects, or the final read of location.href rejects.
ConnectOutcomes == {"ok", "refused", "enable_failed", "href_failed"}

connect_NoReset(c, id, how) ==
  LET d == disconnect(c)
  IN  CASE how = "refused" -> d
        [] how = "enable_failed" -> [d EXCEPT !.client = id]
        [] OTHER -> [d EXCEPT !.client = id, !.connected = TRUE,
                              !.activeTabId = id, !.lastTargetId = id]

\* connect(targetId): the connection fields afterwards.
connect(c, id, how) ==
  LET d == disconnect(c)
  IN  CASE how = "refused" -> d
        [] how = "enable_failed" -> [d EXCEPT !.client = id]
        [] OTHER -> [d EXCEPT !.client = id, !.connected = TRUE,
                              !.activeTabId = id, !.lastTargetId = id,
                              !.reconnectAttempts = 0]

\* connect(targetId) on a listed page target, as a tool handler calls it.
ConnectTo(id) == SetConn(connect(Conn, id, "ok"))

\* connect(targetId) on a target that is gone: disconnect() ran, CDP() threw.
ConnectFails == SetConn(connect(Conn, 0, "refused"))

\* closeTab(id) for each id of toClose: the targets afterwards, when the
\* browser honours the requests for the ids of done.
CloseTargets(tg, done) == [id \in TabIds |-> IF id \in done THEN Closed ELSE tg[id]]

(***************************************************************************)
(* Tool handlers on tabs (CallTool request handler)                        *)
(***************************************************************************)
NoCloseGuard == countChecked' = -1

\* case "comet_connect"
CometConnect ==
  LET pageTabs == SelectSeq(listTargets(targets), IsPage)
      toClose  == {pageTabs[i].id : i \in 2..Len(pageTabs)}
  IN  \E done \in SUBSET toClose :
        LET fresh      == CloseTargets(targets, done)
            freshPages == SelectSeq(listTargets(fresh), IsPage)
        IN  /\ closeCalls' = toClose
            /\ NoCloseGuard
            /\ isError' = FALSE
            /\ IF freshPages # <<>>
               THEN /\ ConnectTo(freshPages[1].id)
                    /\ targets' = [fresh EXCEPT ![freshPages[1].id].url = U_Perplexity]
               ELSE \E id \in {i \in TabIds : fresh[i] = Closed} :
                      /\ ConnectTo(id)
                      /\ targets' = [fresh EXCEPT ![id] = [type |-> "page", url |-> U_Perplexity]]
            /\ op' = "comet_connect"
            /\ UNCHANGED <<tabRegistry, protected, aiVars, reqVars, mgrVars>>

\* case "comet_tabs", action 'list': getTabSummary -> getTabContexts
CometTabsList ==
  /\ tabRegistry' = refreshTabRegistry(tabRegistry, targets)
  /\ isError' = FALSE
  /\ NoCloseGuard
  /\ closeCalls' = {}
  /\ op' = "comet_tabs_list"
  /\ UNCHANGED <<browserVars, connVars, protected, aiVars, reqVars, mgrVars>>

\* Domains a caller passes to comet_tabs.
DomainArgs == {<<"shop.example">>, <<"hub.com">>, <<"perplexity.ai">>}

\* Arguments of comet_tabs switch/close: tabId 0 and domain <<>> are absent.
TabArgs ==
  {[tabId |-> i, domain |-> <<>>] : i \in 0..MaxTabs}
    \cup {[tabId |-> 0, domain |-> d] : d \in DomainArgs}

\* connect(id) as the switch handler calls it; a throw gives an isError result.
Connect(id) ==
  IF IsOpen(targets, id) THEN ConnectTo(id) /\ isError' = FALSE
  ELSE ConnectFails /\ isError' = TRUE

\* case "comet_tabs", action 'switch'
CometTabsSwitch(arg) ==
  /\ IF arg.tabId # 0
     THEN /\ Connect(arg.tabId)
          /\ UNCHANGED tabRegistry
     ELSE IF arg.domain # <<>>
     THEN \E reg \in {refreshTabRegistry(tabRegistry, targets)} :
          \E i \in {findTabByDomain(reg, arg.domain)} :
              /\ tabRegistry' = reg
              /\ IF i # 0 THEN Connect(reg[i].id)
                 ELSE isError' = TRUE /\ UNCHANGED connVars
     ELSE isError' = TRUE /\ UNCHANGED <<connVars, tabRegistry>>
  /\ NoCloseGuard
  /\ closeCalls' = {}
  /\ op' = "comet_tabs_switch"
  /\ UNCHANGED <<browserVars, protected, aiVars, reqVars, mgrVars>>

\* closeTab(id) called by a handler: the browser closes the target or not.
CloseTab(id) ==
  /\ closeCalls' = {id}
  /\ \E ok \in BOOLEAN :
       targets' = IF ok /\ IsOpen(targets, id) THEN CloseTargets(targets, {id}) ELSE targets

NoCloseTab == closeCalls' = {} /\ UNCHANGED targets

CloseGuard_AllowsLast(count) == count < 1

\* The safety check of 'close': allTabs.length <= 1.
CloseGuard(count) == count <= 1

\* case "comet_tabs", action 'close'
CometTabsClose(arg) ==
  \E reg \in {refreshTabRegistry(tabRegistry, targets)} :
  \E i \in {findTabByDomain(reg, arg.domain)} :
      /\ tabRegistry' = reg
      /\ countChecked' = Len(reg)
      /\ IF CloseGuard(Len(reg)) THEN isError' = TRUE /\ NoCloseTab
         ELSE IF arg.tabId # 0 THEN isError' = FALSE /\ CloseTab(arg.tabId)
         ELSE IF arg.domain # <<>> /\ i # 0 /\ reg[i].purpose # "main"
              THEN isError' = FALSE /\ CloseTab(reg[i].id)
         ELSE isError' = TRUE /\ NoCloseTab
      /\ op' = "comet_tabs_close"
      /\ UNCHANGED <<connVars, protected, aiVars, reqVars, mgrVars>>

(***************************************************************************)
(* The remote application and the user acting on the browser               *)
(***************************************************************************)
BrowserActs(tg) ==
  /\ targets' = tg
  /\ protected' = (ExternalOpen(tg) >= 1)
  /\ isError' = FALSE
  /\ countChecked' = -1
  /\ closeCalls' = {}
  /\ wr' = IF pc = "idle" THEN WrIdle ELSE wr
  /\ op' = IF pc = "idle" THEN "environment" ELSE op
  /\ ret' = NoRet
  /\ UNCHANGED <<connVars, tabRegistry, aiVars, ask, calls, send, healthVars, isReconnecting, pc, hcVars>>

TabOpens(kinds) ==
  /\ \E id \in TabIds, t \in kinds :
       /\ targets[id] = Closed
       /\ BrowserActs([targets EXCEPT ![id] = t])

TabNavigates(urls) ==
  /\ \E id \in TabIds, u \in urls :
       /\ targets[id].type = "page"
       /\ targets[id].url # u
       /\ BrowserActs([targets EXCEPT ![id].url = u])

TabCloses ==
  /\ \E id \in TabIds :
       /\ targets[id] # Closed
       /\ BrowserActs(CloseTargets(targets, {id}))

(***************************************************************************)
(* Registry queries of the client                                          *)
(***************************************************************************)
\* Pages on sites whose host names contain one another, and the Perplexity UI.
FindUrls == {U_Shop, U_GitHub, U_Hub, U_Perplexity}
FindTargets == [type : {"page"}, url : FindUrls]

\* Host names a caller queries: those of the external pages.
FindDomains == {extractDomain(u) : u \in FindUrls \ {U_Perplexity}}

\* findTabByDomain(domain): refreshes the registry, returns the first match.
FindTabByDomain(domain) ==
  \E reg \in {refreshTabRegistry(tabRegistry, targets)} :
    \E i \in {findTabByDomain(reg, domain)} :
      /\ tabRegistry' = reg
      /\ ret' = [kind |-> "findTabByDomain", domain |-> domain,
                 id |-> IF i = 0 THEN 0 ELSE reg[i].id]
      /\ op' = "findTabByDomain"
      /\ UNCHANGED <<browserVars, connVars, callVars, aiVars, mgrVars, ask, calls, send>>

RegistryFrame == UNCHANGED <<callVars, aiVars, mgrVars, ask, calls, send>>

\* findTabByUrl(urlPattern): refreshes the registry, returns the first entry
\* whose url includes the pattern.
FindTabByUrl(pattern) ==
  \E reg \in {refreshTabRegistry(tabRegistry, targets)} :
    LET hits == {i \in 1..Len(reg) : Includes(reg[i].url, pattern)}
    IN  /\ tabRegistry' = reg
        /\ ret' = [kind |-> "findTabByUrl",
                   id |-> IF hits = {} THEN 0
                          ELSE reg[CHOOSE i \in hits : \A j \in hits : i <= j].id]
        /\ op' = "findTabByUrl"
        /\ UNCHANGED <<browserVars, connVars>>
        /\ RegistryFrame

\* TabContext['purpose'] values a caller passes.
Purposes == {"main", "data-read"}

\* findTabsByPurpose(purpose): refreshes the registry, returns the entries
\* with the purpose.
FindTabsByPurpose(purpose) ==
  \E reg \in {refreshTabRegistry(tabRegistry, targets)} :
    /\ tabRegistry' = reg
    /\ ret' = [kind |-> "findTabsByPurpose",
               ids |-> {reg[i].id : i \in {j \in 1..Len(reg) : reg[j].purpose = purpose}}]
    /\ op' = "findTabsByPurpose"
    /\ UNCHANGED <<browserVars, connVars>>
    /\ RegistryFrame

\* setTabPurpose(tabId, purpose): the registry afterwards.
setTabPurpose(reg, id, purpose) ==
  IF id \in RegIds(reg) THEN [reg EXCEPT ![RegIndex(reg, id)].purpose = purpose] ELSE reg

SetTabPurpose(id, purpose) ==
  /\ tabRegistry' = setTabPurpose(tabRegistry, id, purpose)
  /\ ret' = [kind |-> "setTabPurpose"]
  /\ op' = "setTabPurpose"
  /\ UNCHANGED <<browserVars, connVars>>
  /\ RegistryFrame

\* setTabContentSummary(tabId, summary): contentSummary and lastActivity of
\* the entry, which no decision reads, are its only assignments.
SetTabContentSummary(id) ==
  /\ ret' = [kind |-> "setTabContentSummary", known |-> id \in RegIds(tabRegistry)]
  /\ op' = "setTabContentSummary"
  /\ UNCHANGED <<browserVars, connVars, tabRegistry>>
  /\ RegistryFrame

\* refreshTabRegistry() called on the client: merges the listing into the
\* registry and returns Array.from(this.tabRegistry.values()).
RefreshTabRegistry ==
  \E reg \in {refreshTabRegistry(tabRegistry, targets)} :
    /\ tabRegistry' = reg
    /\ ret' = [kind |-> "refreshTabRegistry", list |-> reg]
    /\ op' = "refreshTabRegistry"
    /\ UNCHANGED <<browserVars, connVars>>
    /\ RegistryFrame

\* Map.set(id, entry)
RegSet(reg, entry) ==
  IF entry.id \in RegIds(reg) THEN [reg EXCEPT ![RegIndex(reg, entry.id)] = entry]
  ELSE Append(reg, entry)

\* URLs a caller passes to navigateOrReuseTab.
NavigateUrls == {U_Shop, U_Perplexity, U_Blank}

\* navigateOrReuseTab(url, purpose): ok tells whether the remote calls
\* (connect to the tab found, or newTab) succeed.
NavigateOrReuseTab(url, purpose, ok) ==
  \E reg \in {refreshTabRegistry(tabRegistry, targets)} :
  \E i \in {findTabByDomain(reg, extractDomain(url))} :
    /\ IF i # 0 /\ reg[i].purpose # "main"
       THEN IF ok
            THEN /\ ConnectTo(reg[i].id)
                 /\ targets' = [targets EXCEPT ![reg[i].id].url = url]
                 /\ tabRegistry' = setTabPurpose(reg, reg[i].id, purpose)
                 /\ ret' = [kind |-> "navigateOrReuseTab", tabId |-> reg[i].id,
                            reused |-> TRUE]
            ELSE /\ SetConn(connect(Conn, reg[i].id, "refused"))
                 /\ tabRegistry' = reg
                 /\ ret' = [kind |-> "navigateOrReuseTab", tabId |-> 0, reused |-> FALSE]
                 /\ UNCHANGED targets
       ELSE IF ok /\ \E id \in TabIds : targets[id] = Closed
            THEN \E id \in {j \in TabIds : targets[j] = Closed} :
                   /\ targets' = [targets EXCEPT ![id] = [type |-> "page", url |-> url]]
                   /\ ConnectTo(id)
                   /\ tabRegistry' =
                        RegSet(reg, [id |-> id, url |-> url, domain |-> extractDomain(url),
                                     purpose |-> purpose])
                   /\ ret' = [kind |-> "navigateOrReuseTab", tabId |-> id,
                              reused |-> FALSE]
            ELSE /\ tabRegistry' = reg
                 /\ ret' = [kind |-> "navigateOrReuseTab", tabId |-> 0, reused |-> FALSE]
                 /\ UNCHANGED <<targets, connVars>>
    /\ op' = "navigateOrReuseTab"
    /\ RegistryFrame

(***************************************************************************)
(* Health cache (isConnectionHealthy, invalidateHealthCache)               *)
(***************************************************************************)
HEALTH_CHECK_CACHE_MS == 2000

\* Steps of the clock per cache lifetime.
TicksPerTtl == 2

Tick == HEALTH_CHECK_CACHE_MS \div TicksPerTtl

\* An age or a gap after d more milliseconds; ages past the cache lifetime
\* all compare alike and are kept as the lifetime.
Elapse(age, d) == Min(age + d, HEALTH_CHECK_CACHE_MS)

Health == [cache |-> healthCheckCache, age |-> healthAge]

SetHealth(h) ==
  /\ healthCheckCache' = h.cache
  /\ healthAge' = h.age

\* The probe Runtime.evaluate('1+1'): whether it resolves, and how long the
\* call waits for it.
ProbeEnv == [ok : BOOLEAN, took : {0, Tick}]

isConnectionHealthy_NoStamp(h, hasClient, e) ==
  IF h.age < HEALTH_CHECK_CACHE_MS
  THEN [health |-> h, result |-> h.cache, kind |-> "cached", took |-> 0]
  ELSE IF ~hasClient
  THEN [health |-> [cache |-> FALSE, age |-> 0],
        result |-> FALSE, kind |-> "no_client", took |-> 0]
  ELSE [health |-> [cache |-> e.ok, age |-> h.age],
        result |-> e.ok, kind |-> "probed", took |-> e.took]

\* isConnectionHealthy(): the cache afterwards, the boolean returned, the
\* branch taken and the time the call took.  lastHealthCheck is set to the
\* time read when the call began.
isConnectionHealthy(h, hasClient, e) ==
  IF h.age < HEALTH_CHECK_CACHE_MS
  THEN [health |-> h, result |-> h.cache, kind |-> "cached", took |-> 0]
  ELSE IF ~hasClient
  THEN [health |-> [cache |-> FALSE, age |-> 0],
        result |-> FALSE, kind |-> "no_client", took |-> 0]
  ELSE [health |-> [cache |-> e.ok, age |-> Elapse(0, e.took)],
        result |-> e.ok, kind |-> "probed", took |-> e.took]

\* invalidateHealthCache(): lastHealthCheck = 0 makes any age exceed the
\* cache lifetime.
invalidateHealthCache(h) == [cache |-> FALSE, age |-> HEALTH_CHECK_CACHE_MS]

NoCheck ==
  [kind |-> "none", result |-> FALSE, cacheBefore |-> FALSE,
   sinceCall |-> HEALTH_CHECK_CACHE_MS, sinceRefresh |-> HEALTH_CHECK_CACHE_MS,
   sinceProbe |-> HEALTH_CHECK_CACHE_MS]

HealthInit ==
  /\ healthCheckCache = FALSE
  /\ healthAge = HEALTH_CHECK_CACHE_MS
  /\ sinceCall = HEALTH_CHECK_CACHE_MS
  /\ sinceRefresh = HEALTH_CHECK_CACHE_MS
  /\ sinceProbe = HEALTH_CHECK_CACHE_MS
  /\ hcLast = NoCheck

\* A caller runs isConnectionHealthy() to completion.
IsConnectionHealthy ==
  /\ pc = "idle"
  /\ \E e \in ProbeEnv :
       \E r \in {isConnectionHealthy(Health, client # 0, e)} :
           /\ SetHealth(r.health)
           /\ hcLast' = [kind |-> r.kind, result |-> r.result,
                         cacheBefore |-> healthCheckCache,
                         sinceCall |-> sinceCall, sinceRefresh |-> sinceRefresh,
                         sinceProbe |-> sinceProbe]
           /\ sinceCall' = Elapse(0, r.took)
           /\ sinceRefresh' = IF r.kind = "cached" THEN sinceRefresh
                              ELSE Elapse(0, r.took)
           /\ sinceProbe' = IF r.kind = "probed" THEN Elapse(0, r.took)
                            ELSE Elapse(sinceProbe, r.took)
  /\ op' = "isConnectionHealthy"
  /\ UNCHANGED <<browserVars, connVars, tabRegistry, callVars, aiVars, reqVars, retryVars>>

\* A caller runs invalidateHealthCache(); checks made before it no longer
\* count as made without an invalidation in between.
InvalidateHealthCache ==
  /\ pc = "idle"
  /\ SetHealth(invalidateHealthCache(Health))
  /\ sinceCall' = HEALTH_CHECK_CACHE_MS
  /\ sinceRefresh' = HEALTH_CHECK_CACHE_MS
  /\ sinceProbe' = HEALTH_CHECK_CACHE_MS
  /\ op' = "invalidateHealthCache"
  /\ UNCHANGED <<browserVars, connVars, tabRegistry, callVars, aiVars, reqVars, retryVars, hcLast>>

\* The clock advances between two steps of the program.
TimePasses ==
  /\ healthAge < HEALTH_CHECK_CACHE_MS \/ sinceCall < HEALTH_CHECK_CACHE_MS
  /\ healthAge' = Elapse(healthAge, Tick)
  /\ sinceCall' = Elapse(sinceCall, Tick)
  /\ sinceRefresh' = Elapse(sinceRefresh, Tick)
  /\ sinceProbe' = Elapse(sinceProbe, Tick)
  /\ wr' = IF pc = "idle" THEN WrIdle ELSE wr
  /\ op' = IF pc = "idle" THEN "environment" ELSE op
  /\ UNCHANGED <<browserVars, connVars, tabRegistry, callVars, aiVars, reqVars, isReconnecting, pc,
                 healthCheckCache, hcLast>>

(***************************************************************************)
(* Errors and their classification                                         *)
(***************************************************************************)
\* String.prototype.toLowerCase on the tokens a signature can match.
LowerOf ==
  ("WebSocket" :> "websocket") @@ ("CLOSED" :> "closed") @@
  ("ECONNREFUSED" :> "econnrefused") @@ ("ECONNRESET" :> "econnreset") @@
  ("ETIMEDOUT" :> "etimedout") @@ ("EPIPE" :> "epipe") @@
  ("readyState" :> "readystate") @@ ("Protocol error" :> "protocol error") @@
  ("Target closed" :> "target closed") @@ ("Session closed" :> "session closed") @@
  ("Execution context" :> "execution context") @@
  ("Inspected target navigated" :> "inspected target navigated") @@
  ("Target " :> "target ") @@
  ("Not connected to Comet. Call connect() first." :>
     "not connected to comet. call connect() first.")

toLowerCase(s) ==
  [i \in 1..Len(s) |-> IF s[i] \in DOMAIN LowerOf THEN LowerOf[s[i]] ELSE s[i]]

connectionErrors ==
  << <<"WebSocket">>, <<"CLOSED">>, <<"not open">>, <<"disconnected">>,
     <<"readyState">>, <<"ECONNREFUSED">>, <<"ECONNRESET">>, <<"ETIMEDOUT">>,
     <<"EPIPE">>, <<"socket hang up">>, <<"Protocol error">>, <<"Target closed">>,
     <<"Session closed">>, <<"Execution context">>, <<"not found">>,
     <<"detached">>, <<"crashed">>, <<"Inspected target navigated">>,
     <<"aborted">> >>

isConnectionError(msg) ==
  \E i \in 1..Len(connectionErrors) :
    Includes(toLowerCase(msg), toLowerCase(connectionErrors[i]))

\* Messages of the errors an operation throws.
E_TargetClosed == <<"Target ", "closed">>
E_NotConnected == <<"Not connected to Comet. Call connect() first.">>
OpErrors == {E_TargetClosed, E_NotConnected}

\* An operation returns a value (no message) or throws one of the errors.
Returns == <<>>
OpOutcomes == {Returns} \cup OpErrors

\* Messages of the errors reconnect() throws.
E_CannotConnect ==
  <<"Cannot connect to Comet. Ensure Comet is running with --remote-debugging-port=9222">>
E_NoSuitableTab == <<"No suitable tab found for reconnection">>
E_ConnectFailed == <<"connect ", "ECONNREFUSED">>

(***************************************************************************)
(* reconnect, preOperationCheck                                            *)
(***************************************************************************)
\* What the environment decides during a reconnect(): getVersion answers,
\* startComet succeeds, and how the connect() calls end.
ReconnectEnv ==
  [up : BOOLEAN, started : BOOLEAN, last : ConnectOutcomes, best : ConnectOutcomes]

bestTarget_NonBlankFirst(list) ==
  LET other == SelectSeq(list, LAMBDA t : IsPage(t) /\ t.url # U_Blank)
  IN  IF other # <<>> THEN other[1].id ELSE 0

\* "Find best target" of reconnect(): 0 when there is none.
bestTarget(list) ==
  LET perp  == SelectSeq(list, LAMBDA t : IsPage(t) /\ Includes(t.url, <<"perplexity.ai">>))
      other == SelectSeq(list, LAMBDA t : IsPage(t) /\ t.url # U_Blank)
  IN  IF perp # <<>> THEN perp[1].id
      ELSE IF other # <<>> THEN other[1].id
      ELSE 0

\* reconnect() connects to lastTargetId when it is set and listed.
triesLast(c, list) ==
  c.lastTargetId # 0 /\ \E i \in 1..Len(list) : list[i].id = c.lastTargetId

\* The decisions a reconnect() from these fields comes to; a decision it
\* never asks for is left at its first value.
ReconnectEnvOf(c, list) ==
  LET tl       == triesLast(c, list)
      bt       == bestTarget(list) # 0
      lasts    == IF tl THEN ConnectOutcomes ELSE {"ok"}
      bests(l) == IF bt /\ ~(tl /\ l = "ok") THEN ConnectOutcomes ELSE {"ok"}
  IN  {[up |-> FALSE, started |-> FALSE, last |-> "ok", best |-> "ok"]}
        \cup UNION {{[up |-> u, started |-> TRUE, last |-> l, best |-> b] : b \in bests(l)} :
                      u \in BOOLEAN, l \in lasts}

\* reconnect() against the listing list: the connection fields afterwards
\* and the message of the error thrown, Returns when it returns.
reconnect(c, list, e) ==
  LET c0      == [c EXCEPT !.connected = FALSE, !.client = 0]
      tryLast == triesLast(c0, list)
      c1      == IF tryLast THEN connect(c0, c0.lastTargetId, e.last) ELSE c0
      target  == bestTarget(list)
  IN  IF ~e.up /\ ~e.started THEN [conn |-> c0, error |-> E_CannotConnect]
      ELSE IF tryLast /\ e.last = "ok" THEN [conn |-> c1, error |-> Returns]
      ELSE IF target # 0
      THEN [conn |-> connect(c1, target, e.best),
            error |-> IF e.best = "ok" THEN Returns ELSE E_ConnectFailed]
      ELSE [conn |-> c1, error |-> E_NoSuitableTab]

\* The decisions a preOperationCheck() from these fields comes to. The
\* probe is answered only by a target that is open.
PreCheckEnvOf(c, h, list) ==
  LET asks   == c.client # 0 /\ ~(h.age < HEALTH_CHECK_CACHE_MS /\ h.cache)
      probes == asks /\ ~(h.age < HEALTH_CHECK_CACHE_MS)
      alive  == \E i \in 1..Len(list) : list[i].id = c.client
      pes    == IF probes THEN {e \in ProbeEnv : e.ok => alive}
                ELSE {[ok |-> FALSE, took |-> 0]}
      res(e) == IF c.client = 0 \/ (asks /\ ~(probes /\ e.ok))
                THEN ReconnectEnvOf(c, list)
                ELSE {[up |-> TRUE, started |-> TRUE, last |-> "ok", best |-> "ok"]}
  IN  UNION {{[pe |-> e, re |-> r] : r \in res(e)} : e \in pes}

\* preOperationCheck(): connection fields and cache afterwards, and the
\* number of reconnect() calls made.  What it throws is dropped by the
\* caller.
preOperationCheck(c, h, list, pe, re) ==
  IF c.client = 0
  THEN [conn |-> reconnect(c, list, re).conn, health |-> h, reconnects |-> 1]
  ELSE IF h.age < HEALTH_CHECK_CACHE_MS /\ h.cache
  THEN [conn |-> c, health |-> h, reconnects |-> 0]
  ELSE LET r == isConnectionHealthy(h, TRUE, pe)
       IN  IF r.result
           THEN [conn |-> c, health |-> r.health, reconnects |-> 0]
           ELSE [conn |-> reconnect(c, list, re).conn,
                 health |-> invalidateHealthCache(r.health), reconnects |-> 1]

(***************************************************************************)
(* Calls on the session: connect, disconnect, reconnect, stopAgent         *)
(***************************************************************************)
SessionFrame ==
  UNCHANGED <<browserVars, tabRegistry, callVars, aiVars, healthVars, retryVars, hcVars, ask, calls, send>>

\* connect(id), by a caller that holds the id of a target.
ClientConnect(id, how) ==
  /\ IsOpen(targets, id) \/ how = "refused"
  /\ SetConn(connect(Conn, id, how))
  /\ ret' = [kind |-> "connect", returned |-> how = "ok"]
  /\ op' = "connect"
  /\ SessionFrame

\* disconnect(): close is how client.close() ends when there is a session.
\* ret records the connection fields before the call, the number of remote
\* calls made, and whether the call came right after a disconnect() that
\* returned.
Disconnect(close) ==
  /\ IF client # 0 /\ close = "throws" THEN UNCHANGED connVars
     ELSE SetConn(disconnect(Conn))
  /\ ret' = [kind |-> "disconnect", before |-> Conn,
             remote |-> IF client # 0 THEN 1 ELSE 0,
             returned |-> ~(client # 0 /\ close = "throws"),
             second |-> op = "disconnect" /\ ret.returned]
  /\ op' = "disconnect"
  /\ SessionFrame

\* reconnect(), by itself. ret records the listing it read, the
\* lastTargetId it started from, whether connecting to that target was
\* tried and failed, and the message of the error thrown.
Reconnect ==
  /\ \E list \in {listTargets(targets)} :
     \E e \in ReconnectEnvOf(Conn, list) :
     \E r \in {reconnect(Conn, list, e)} :
       /\ SetConn(r.conn)
       /\ ret' = [kind |-> "reconnect", list |-> list, last |-> lastTargetId,
                  lastFailed |-> (e.up \/ e.started) /\ triesLast(Conn, list)
                                   /\ e.last # "ok",
                  error |-> r.error]
  /\ op' = "reconnect"
  /\ SessionFrame

stopAgent_Disconnects(c) == disconnect(c)

\* stopAgent(): the connection fields afterwards. It evaluates one script
\* through evaluate(), which assigns no field.
stopAgent(c) == c

\* case "comet_stop": found is what the script returns; evaluate() throws
\* when there is no session or when the remote call rejects.
CometStop(out) ==
  /\ client = 0 => out = "throws"
  /\ SetConn(stopAgent(Conn))
  /\ ret' = [kind |-> "stopAgent", found |-> out = "found"]
  /\ isError' = (out = "throws")
  /\ NoCloseGuard
  /\ closeCalls' = {}
  /\ op' = "comet_stop"
  /\ UNCHANGED <<browserVars, tabRegistry, protected, aiVars, mgrVars, ask, calls, send>>

StopOutcomes == {"found", "not_found", "throws"}

(***************************************************************************)
(* withAutoReconnect, one call at a time                                   *)
(***************************************************************************)
maxReconnectAttempts == 10

\* Math.min(300 * Math.pow(1.3, n - 1), 2000), in whole milliseconds; the
\* power is carried in thousandths of a millisecond.
RECURSIVE BackoffMicros(_)
BackoffMicros(n) ==
  IF n <= 1 THEN 300000 ELSE Min((BackoffMicros(n - 1) * 13) \div 10, 2000000)

BackoffDelay_OneFactorMore(n) == Min(BackoffMicros(n + 1) \div 1000, 2000)

BackoffDelay(n) == Min(BackoffMicros(n) \div 1000, 2000)

RetryInit ==
  /\ isReconnecting = FALSE
  /\ pc = "idle"
  /\ wr = WrIdle

WrReturn(w) == [w EXCEPT !.result = "returned", !.reconnectError = NoError]

WrThrow(w, e) == [w EXCEPT !.result = "threw", !.thrown = e, !.reconnectError = NoError]

ShouldReconnect_AnyError(msg, attempts) == attempts < maxReconnectAttempts

ShouldReconnect_NoBudget(msg, attempts) == isConnectionError(msg)

\* isConnectionError && this.reconnectAttempts < this.maxReconnectAttempts
ShouldReconnect(msg, attempts) ==
  isConnectionError(msg) /\ attempts < maxReconnectAttempts

\* The cache as the call finds it after waiting while isReconnecting is
\* set, 20 times 300 ms at most.
WaitedHealth ==
  [Health EXCEPT !.age = Elapse(@, IF isReconnecting THEN 20 * 300 ELSE 0)]

\* The call begins: wait while isReconnecting, then preOperationCheck().
WR_Begin ==
  /\ pc = "idle"
  /\ \E list \in {listTargets(targets)} :
     \E e \in PreCheckEnvOf(Conn, WaitedHealth, list) :
       \E p \in {preOperationCheck(Conn, WaitedHealth, list, e.pe, e.re)} :
           /\ SetConn(p.conn)
           /\ SetHealth(p.health)
           /\ wr' = [WrIdle EXCEPT !.result = "pending", !.reconnects = p.reconnects]
  /\ pc' = "operation"
  /\ op' = "withAutoReconnect"
  /\ UNCHANGED <<browserVars, tabRegistry, callVars, aiVars, reqVars, isReconnecting, hcVars>>

\* The first invocation of the operation, and the classification of what
\* it throws.
WR_Operation ==
  /\ pc = "operation"
  /\ \E m \in OpOutcomes :
       LET w == [wr EXCEPT !.opCalls = @ + 1]
       IN  IF m = Returns
           THEN /\ reconnectAttempts' = 0
                /\ wr' = WrReturn(w)
                /\ pc' = "idle"
                /\ UNCHANGED <<isReconnecting, healthVars>>
           ELSE IF ShouldReconnect(m, reconnectAttempts)
           THEN /\ reconnectAttempts' = reconnectAttempts + 1
                /\ isReconnecting' = TRUE
                /\ SetHealth(invalidateHealthCache(Health))
                /\ wr' = [w EXCEPT !.error = Error(m, 1)]
                /\ pc' = "reconnect"
           ELSE /\ wr' = WrThrow([w EXCEPT !.error = Error(m, 1)], Error(m, 1))
                /\ pc' = "idle"
                /\ UNCHANGED <<reconnectAttempts, isReconnecting, healthVars>>
  /\ op' = "withAutoReconnect"
  /\ UNCHANGED <<browserVars, client, connected, activeTabId, lastTargetId,
                 tabRegistry, callVars, aiVars, reqVars, hcVars>>

Catch_NoColdStart(w, e, attempts) ==
  /\ isReconnecting' = FALSE
  /\ wr' = WrThrow(w, e) /\ pc' = "idle"

Catch_KeepsFlag(w, e, attempts) ==
  /\ UNCHANGED isReconnecting
  /\ IF attempts < maxReconnectAttempts
     THEN wr' = [w EXCEPT !.reconnectError = e] /\ pc' = "cold_start"
     ELSE wr' = WrThrow(w, e) /\ pc' = "idle"

\* catch (reconnectError): cold start while under budget, else rethrow.
Catch(w, e, attempts) ==
  /\ isReconnecting' = FALSE
  /\ IF attempts < maxReconnectAttempts
     THEN wr' = [w EXCEPT !.reconnectError = e] /\ pc' = "cold_start"
     ELSE wr' = WrThrow(w, e) /\ pc' = "idle"

\* The backoff delay, then reconnect().
WR_Reconnect ==
  /\ pc = "reconnect"
  /\ \E list \in {listTargets(targets)} :
     \E re \in ReconnectEnvOf(Conn, list) :
       \E r \in {reconnect(Conn, list, re)},
          w \in {[wr EXCEPT !.reconnects = @ + 1, !.reconnectsAfterOp = @ + 1]} :
           /\ SetConn(r.conn)
           /\ IF r.error = Returns
              THEN isReconnecting' = FALSE /\ wr' = w /\ pc' = "retry"
              ELSE Catch(w, Error(r.error, 0), r.conn.reconnectAttempts)
  /\ healthAge' = Elapse(healthAge, BackoffDelay(reconnectAttempts))
  /\ op' = "withAutoReconnect"
  /\ UNCHANGED <<browserVars, tabRegistry, callVars, aiVars, reqVars, healthCheckCache, hcVars>>

\* The retry of the operation after reconnect() returned.
WR_Retry ==
  /\ pc = "retry"
  /\ \E m \in OpOutcomes :
       LET w == [wr EXCEPT !.opCalls = @ + 1]
       IN  IF m = Returns
           THEN wr' = WrReturn(w) /\ pc' = "idle" /\ UNCHANGED isReconnecting
           ELSE Catch(w, Error(m, 2), reconnectAttempts)
  /\ op' = "withAutoReconnect"
  /\ UNCHANGED <<browserVars, connVars, tabRegistry, callVars, aiVars, reqVars, healthVars, hcVars>>

\* The page the cold start connects to: 0 when no page is listed.
coldStartTarget(list) ==
  LET perp  == SelectSeq(list, LAMBDA t : IsPage(t) /\ Includes(t.url, <<"perplexity.ai">>))
      pages == SelectSeq(list, IsPage)
  IN  IF perp # <<>> THEN perp[1].id
      ELSE IF pages # <<>> THEN pages[1].id
      ELSE 0

\* The fresh start: startComet, a pause, listTargets and connect().
WR_ColdStart ==
  /\ pc = "cold_start"
  /\ \E started \in BOOLEAN, how \in ConnectOutcomes :
       \E id \in {coldStartTarget(listTargets(targets))} :
           /\ ~(started /\ id # 0) => how = "ok"
           /\ IF started /\ id # 0
              THEN /\ SetConn(connect(Conn, id, how))
                   /\ healthAge' = Elapse(healthAge, 1500)
                   /\ IF how = "ok"
                      THEN wr' = wr /\ pc' = "cold_retry"
                      ELSE wr' = WrThrow(wr, wr.reconnectError) /\ pc' = "idle"
              ELSE /\ wr' = WrThrow(wr, wr.reconnectError)
                   /\ pc' = "idle"
                   /\ UNCHANGED <<connVars, healthAge>>
  /\ op' = "withAutoReconnect"
  /\ UNCHANGED <<browserVars, tabRegistry, callVars, aiVars, reqVars, isReconnecting,
                 healthCheckCache, hcVars>>

\* The retry of the operation after the fresh start; what it throws is
\* dropped and reconnectError is thrown.
WR_ColdRetry ==
  /\ pc = "cold_retry"
  /\ \E m \in OpOutcomes :
       LET w == [wr EXCEPT !.opCalls = @ + 1]
       IN  IF m = Returns
           THEN wr' = WrReturn(w)
           ELSE wr' = WrThrow(w, wr.reconnectError)
  /\ pc' = "idle"
  /\ op' = "withAutoReconnect"
  /\ UNCHANGED <<browserVars, connVars, tabRegistry, callVars, aiVars, reqVars, isReconnecting,
                 healthVars, hcVars>>

(***************************************************************************)
(* withAutoReconnect, two calls that overlap                               *)
(*                                                                         *)
(* A call is followed from one await to the next: the code between two     *)
(* awaits runs without interruption, and while a call awaits (a sleep, a   *)
(* reconnect(), the operation, the fresh start) the other call may run.    *)
(* reconnect() assigns connected and client when it begins and the rest    *)
(* when it ends.                                                           *)
(***************************************************************************)
CallIds == {1, 2}

\* Highest value reconnectAttempts is followed to while calls overlap.
OverlapAttempts == 2

MAX_WAIT_COUNT == 20
WAIT_INTERVAL == 300

\* A call: the await it stands at, waitCount of its wait loop and the time
\* it has slept in that loop, both kept until the operation is invoked.
CallIdle == [pc |-> "idle", waitCount |-> 0, waited |-> 0]

\* The call goes on to its next await.
At(c, where) ==
  calls' = [calls EXCEPT ![c] = IF where = "pre_reconnect" THEN [@ EXCEPT !.pc = where]
                                ELSE [CallIdle EXCEPT !.pc = where]]

\* while (this.isReconnecting && waitCount < 20)
KeepsWaiting_NoCap(flag, waitCount) == flag

KeepsWaiting(flag, waitCount) == flag /\ waitCount < MAX_WAIT_COUNT

\* reconnect() up to its first await on the browser.
reconnectBegins(c) == [c EXCEPT !.connected = FALSE, !.client = 0]

\* preOperationCheck() up to its first await, and the invocation of the
\* operation when it returns without one.
BeginPreOperationCheckFrom(w, c) ==
  IF client = 0
  THEN /\ SetConn(reconnectBegins(Conn))
       /\ calls' = [w EXCEPT ![c].pc = "pre_reconnect"]
       /\ UNCHANGED healthVars
  ELSE IF healthAge < HEALTH_CHECK_CACHE_MS /\ healthCheckCache
  THEN /\ calls' = [w EXCEPT ![c] = [CallIdle EXCEPT !.pc = "operation"]]
       /\ UNCHANGED <<connVars, healthVars>>
  ELSE IF healthAge < HEALTH_CHECK_CACHE_MS
  THEN /\ SetConn(reconnectBegins(Conn))
       /\ SetHealth(invalidateHealthCache(Health))
       /\ calls' = [w EXCEPT ![c].pc = "pre_reconnect"]
  ELSE /\ calls' = [w EXCEPT ![c].pc = "probe"]
       /\ UNCHANGED <<connVars, healthVars>>

OverlapFrame ==
  /\ op' = "withAutoReconnect"
  /\ UNCHANGED <<browserVars, tabRegistry, callVars, aiVars, hcVars, pc, wr, ret, ask, send>>

\* The call is made: it sleeps if isReconnecting is set, else it goes on to
\* preOperationCheck().
CallEnter(c) ==
  /\ calls[c].pc = "idle"
  /\ IF KeepsWaiting(isReconnecting, 0)
     THEN At(c, "wait") /\ UNCHANGED <<connVars, healthVars>>
     ELSE BeginPreOperationCheckFrom(calls, c)
  /\ UNCHANGED isReconnecting
  /\ OverlapFrame

\* A sleep of the wait loop ends: waitCount++, and the loop condition.
WaitWake(c) ==
  /\ calls[c].pc = "wait"
  /\ IF KeepsWaiting(isReconnecting, calls[c].waitCount + 1)
     THEN /\ calls' = [calls EXCEPT ![c].waitCount = @ + 1,
                                    ![c].waited = @ + WAIT_INTERVAL]
          /\ UNCHANGED <<connVars, healthVars>>
     ELSE /\ \E w \in {[calls EXCEPT ![c].waitCount = @ + 1,
                                     ![c].waited = @ + WAIT_INTERVAL]} :
               BeginPreOperationCheckFrom(w, c)
  /\ UNCHANGED isReconnecting
  /\ OverlapFrame

\* The probe of isConnectionHealthy() settles; on a failure
\* preOperationCheck() invalidates the cache and begins reconnect().
ProbeEnd(c) ==
  /\ calls[c].pc = "probe"
  /\ \E e \in ProbeEnv :
       /\ e.ok => IsOpen(targets, client)
       /\ LET h == isConnectionHealthy(invalidateHealthCache(Health), TRUE, e).health
          IN  IF e.ok
              THEN SetHealth(h) /\ At(c, "operation") /\ UNCHANGED connVars
              ELSE /\ SetHealth(invalidateHealthCache(h))
                   /\ SetConn(reconnectBegins(Conn))
                   /\ At(c, "pre_reconnect")
  /\ UNCHANGED isReconnecting
  /\ OverlapFrame

\* The reconnect() of preOperationCheck() settles; what it throws is
\* dropped and the operation is invoked.
PreReconnectEnd(c) ==
  /\ calls[c].pc = "pre_reconnect"
  /\ \E list \in {listTargets(targets)} :
     \E e \in ReconnectEnvOf(Conn, list) :
       SetConn(reconnect(Conn, list, e).conn)
  /\ At(c, "operation")
  /\ UNCHANGED <<healthVars, isReconnecting>>
  /\ OverlapFrame

\* catch (reconnectError) of an overlapping call.
CatchOf(c, attempts) ==
  /\ isReconnecting' = FALSE
  /\ At(c, IF attempts < maxReconnectAttempts THEN "cold_start" ELSE "idle")

\* The first invocation of the operation settles.
OperationEnd(c) ==
  /\ calls[c].pc = "operation"
  /\ \E m \in OpOutcomes :
       IF m = Returns
       THEN /\ reconnectAttempts' = 0
            /\ At(c, "idle")
            /\ UNCHANGED <<isReconnecting, healthVars>>
       ELSE IF ShouldReconnect(m, reconnectAttempts)
       THEN /\ reconnectAttempts < OverlapAttempts
            /\ reconnectAttempts' = reconnectAttempts + 1
            /\ isReconnecting' = TRUE
            /\ SetHealth(invalidateHealthCache(Health))
            /\ At(c, "backoff")
       ELSE /\ At(c, "idle")
            /\ UNCHANGED <<reconnectAttempts, isReconnecting, healthVars>>
  /\ UNCHANGED <<client, connected, activeTabId, lastTargetId>>
  /\ OverlapFrame

\* The backoff sleep ends and reconnect() begins.
BackoffEnd(c) ==
  /\ calls[c].pc = "backoff"
  /\ SetConn(reconnectBegins(Conn))
  /\ At(c, "reconnect")
  /\ UNCHANGED <<healthVars, isReconnecting>>
  /\ OverlapFrame

\* reconnect() settles: the flag is cleared, and the operation is invoked
\* again or the catch block runs.
ReconnectEnd(c) ==
  /\ calls[c].pc = "reconnect"
  /\ \E list \in {listTargets(targets)} :
     \E e \in ReconnectEnvOf(Conn, list) :
     \E r \in {reconnect(Conn, list, e)} :
       /\ SetConn(r.conn)
       /\ IF r.error = Returns
          THEN isReconnecting' = FALSE /\ At(c, "retry")
          ELSE CatchOf(c, r.conn.reconnectAttempts)
  /\ UNCHANGED healthVars
  /\ OverlapFrame

\* The retry after reconnect() settles.
RetryEnd(c) ==
  /\ calls[c].pc = "retry"
  /\ \E m \in OpOutcomes :
       IF m = Returns
       THEN At(c, "idle") /\ UNCHANGED isReconnecting
       ELSE CatchOf(c, reconnectAttempts)
  /\ UNCHANGED <<connVars, healthVars>>
  /\ OverlapFrame

\* The fresh start settles: startComet, the pause, listTargets, connect().
ColdStartEnd(c) ==
  /\ calls[c].pc = "cold_start"
  /\ \E started \in BOOLEAN, how \in ConnectOutcomes :
       \E id \in {coldStartTarget(listTargets(targets))} :
         /\ ~(started /\ id # 0) => how = "ok"
         /\ IF started /\ id # 0
            THEN /\ SetConn(connect(Conn, id, how))
                 /\ At(c, IF how = "ok" THEN "cold_retry" ELSE "idle")
            ELSE At(c, "idle") /\ UNCHANGED connVars
  /\ UNCHANGED <<healthVars, isReconnecting>>
  /\ OverlapFrame

\* The retry after the fresh start settles.
ColdRetryEnd(c) ==
  /\ calls[c].pc = "cold_retry"
  /\ At(c, "idle")
  /\ UNCHANGED <<connVars, healthVars, isReconnecting>>
  /\ OverlapFrame

(***************************************************************************)
(* sendPrompt and submitPrompt                                             *)
(*                                                                         *)
(* A call is followed from one evaluate to the next.  The page is what the *)
(* scripts read and write: which input elements exist, the trimmed length  *)
(* of their content, and the indicators the verifications look for.        *)
(***************************************************************************)
\* Lengths of a prompt: below and above the 5 characters of the checks.
PromptLens == {3, 20}

\* The pages a prompt is sent to: a contenteditable element or not, no
\* textarea or one with an "Ask" placeholder, a "Search" placeholder or
\* neither, a text input or not, an element with some other animate-* class
\* or not; the inputs empty, nothing loading.
SendPages ==
  [ce : BOOLEAN, ta : {"none", "ask", "search", "plain"}, input : BOOLEAN,
   anim : BOOLEAN, ceText : {0}, taText : {0}, spin : {FALSE}, thinking : {FALSE}]

\* INPUT_SELECTORS, by index: whether document.querySelector finds a match.
SelectorMatches(d, k) ==
  CASE k = 1 -> d.ce
    [] k = 2 -> d.ta = "ask"
    [] k = 3 -> d.ta = "search"
    [] k = 4 -> d.ta # "none"
    [] k = 5 -> d.input

INPUT_SELECTORS == 1..5

\* findInputElement(): index of the first selector that matches, 0 = null.
findInputElement(d) ==
  LET hits == {k \in INPUT_SELECTORS : SelectorMatches(d, k)}
  IN  IF hits = {} THEN 0 ELSE CHOOSE k \in hits : \A j \in hits : k <= j

\* The element the typing script writes into.
TypedInto(d) == IF d.ce THEN "ce" ELSE IF d.ta # "none" THEN "ta" ELSE "none"

\* The page after the typing script: the element holds the prompt when the
\* page took the text (took), its content is empty otherwise.
Typed(d, len, took) ==
  IF d.ce THEN [d EXCEPT !.ceText = IF took THEN len ELSE 0]
  ELSE IF d.ta # "none" THEN [d EXCEPT !.taText = IF took THEN len ELSE 0]
  ELSE d

\* The verifications of submitPrompt.
hasContent(d) == (d.ce /\ d.ceText > 0) \/ (d.ta # "none" /\ d.taText > 0)
submitted(d) == (d.ce /\ d.ceText < 5) \/ d.spin \/ d.thinking
finalCheck(d) == (d.ce /\ d.ceText < 5) \/ d.spin \/ d.anim \/ d.thinking

\* The page after an event it may take as a submission: the inputs are
\* cleared and the indicators shown or not, or nothing changes.
Reactions(d) ==
  {d} \cup {[d EXCEPT !.ceText = 0, !.taText = 0, !.spin = sp, !.thinking = th] :
              sp \in BOOLEAN, th \in BOOLEAN}

E_InputNotFound == <<"Could not find input element. Navigate to Perplexity first.">>
E_TypeFailed == <<"Failed to type into input element">>
E_NoPromptText == <<"Prompt text not found in input - typing may have failed">>

\* steps: the scripts of submitPrompt run after the first verification;
\* events: what they dispatched to the page.
SendIdle ==
  [pc |-> "idle", dom |-> [ce |-> FALSE, ta |-> "none", input |-> FALSE, anim |-> FALSE,
                           ceText |-> 0, taText |-> 0, spin |-> FALSE, thinking |-> FALSE],
   prompt |-> 0, found |-> 0, typedInto |-> "none", steps |-> <<>>, events |-> <<>>,
   hasContent |-> "none", submitted |-> "none", finalCheck |-> "none",
   result |-> "none", error |-> <<>>]

Verdict(v) == IF v THEN "pass" ELSE "fail"

SendFrame ==
  UNCHANGED <<browserVars, connVars, tabRegistry, callVars, aiVars, mgrVars, ret, ask, calls>>

SendThrow(s, msg) == [s EXCEPT !.pc = "idle", !.result = "threw", !.error = msg]
SendReturn(s) == [s EXCEPT !.pc = "idle", !.result = "sent"]

\* sendPrompt(prompt) up to the typing script: findInputElement() and the
\* throw when it returns null.
SendPrompt(d, len) ==
  /\ send.pc = "idle"
  /\ LET s == [SendIdle EXCEPT !.dom = d, !.prompt = len, !.found = findInputElement(d)]
     IN  send' = IF s.found = 0 THEN SendThrow(s, E_InputNotFound)
                 ELSE [s EXCEPT !.pc = "type"]
  /\ op' = "sendPrompt"
  /\ SendFrame

\* The typing script and the throw when it reports no success.
SendType(took) ==
  /\ send.pc = "type"
  /\ LET s == [send EXCEPT !.typedInto = TypedInto(send.dom),
                           !.dom = Typed(send.dom, send.prompt, took)]
     IN  send' = IF s.typedInto = "none" THEN SendThrow(s, E_TypeFailed)
                 ELSE [s EXCEPT !.pc = "hasContent"]
  /\ op' = "sendPrompt"
  /\ SendFrame

\* submitPrompt(): the check that the text was typed.
SubmitHasContent ==
  /\ send.pc = "hasContent"
  /\ LET s == [send EXCEPT !.hasContent = Verdict(hasContent(send.dom))]
     IN  send' = IF ~hasContent(send.dom) THEN SendThrow(s, E_NoPromptText)
                 ELSE [s EXCEPT !.pc = "enter"]
  /\ op' = "sendPrompt"
  /\ SendFrame

\* Strategy 1: keydown and keyup of Enter on the input element.
SubmitEnter ==
  /\ send.pc = "enter"
  /\ \E d \in (IF send.dom.ce \/ send.dom.ta # "none" THEN Reactions(send.dom)
               ELSE {send.dom}) :
       send' = [send EXCEPT !.pc = "submitted", !.dom = d,
                            !.steps = Append(@, "enter"),
                            !.events = IF send.dom.ce \/ send.dom.ta # "none"
                                       THEN Append(@, "Enter") ELSE @]
  /\ op' = "sendPrompt"
  /\ SendFrame

NextAfterSubmitted_AlwaysClick(v) == "click"

\* if (submitted.result.value) return;
NextAfterSubmitted(v) == IF v THEN "idle" ELSE "click"

\* The check that the submission worked.
SubmitSubmitted ==
  /\ send.pc = "submitted"
  /\ LET s == [send EXCEPT !.submitted = Verdict(submitted(send.dom)),
                           !.pc = NextAfterSubmitted(submitted(send.dom))]
     IN  send' = IF s.pc = "idle" THEN SendReturn(s) ELSE s
  /\ op' = "sendPrompt"
  /\ SendFrame

\* Strategy 2: click on the submit button, when the script finds one.
SubmitClick(button) ==
  /\ send.pc = "click"
  /\ \E d \in (IF button THEN Reactions(send.dom) ELSE {send.dom}) :
       send' = [send EXCEPT !.pc = "finalCheck", !.dom = d,
                            !.steps = Append(@, "click"),
                            !.events = IF button THEN Append(@, "click") ELSE @]
  /\ op' = "sendPrompt"
  /\ SendFrame

\* The final verification.
SubmitFinalCheck ==
  /\ send.pc = "finalCheck"
  /\ LET s == [send EXCEPT !.finalCheck = Verdict(finalCheck(send.dom))]
     IN  send' = IF finalCheck(send.dom) THEN SendReturn(s) ELSE [s EXCEPT !.pc = "form"]
  /\ op' = "sendPrompt"
  /\ SendFrame

\* Last resort: a submit event on the form, when the page has one.
SubmitForm(form) ==
  /\ send.pc = "form"
  /\ send' = SendReturn([send EXCEPT !.steps = Append(@, "form"),
                                     !.events = IF form THEN Append(@, "submit") ELSE @])
  /\ op' = "sendPrompt"
  /\ SendFrame

\* An evaluate of the call throws (no session, or the target is gone).
SendEvaluateThrows(msg) ==
  /\ send.pc # "idle"
  /\ send' = SendThrow(send, msg)
  /\ op' = "sendPrompt"
  /\ SendFrame

(***************************************************************************)
(* Completion detector                                                     *)
(***************************************************************************)
STABILITY_THRESHOLD == 2
StableMinLen == 50
ProseMinLen == 30
MaxResponseLen == 8000

\* Highest value the stability counter is followed to.
MaxStable == 3

NoText == [id |-> 0, len |-> 0]

\* Response texts a page can show: the empty text, an 18-character answer,
\* texts of exactly 50 and of 51 characters, a second 51-character text that
\* differs from the first, and one longer than the 8000-character cap.
Texts ==
  { NoText,
    [id |-> 1, len |-> 18],
    [id |-> 1, len |-> StableMinLen],
    [id |-> 1, len |-> StableMinLen + 1],
    [id |-> 2, len |-> StableMinLen + 1],
    [id |-> 3, len |-> MaxResponseLen + 1] }

\* The signals one structured read of the page yields, and the response
\* text the page shows (after the steps/sources marker and in its prose
\* blocks). text is free of the UI phrases that the clean-up pass removes.
Pages ==
  [ stop     : BOOLEAN,   \* hasActiveStopButton
    spinner  : BOOLEAN,   \* hasLoadingSpinner
    thinking : BOOLEAN,   \* hasThinkingIndicator
    working  : BOOLEAN,   \* hasWorkingText
    steps    : BOOLEAN,   \* hasStepsCompleted
    finished : BOOLEAN,   \* body.includes('Finished')
    sources  : BOOLEAN,   \* hasReviewedSources
    followUp : BOOLEAN,   \* hasAskFollowUp
    text     : Texts ]

\* No poll made yet: no signal, no text.
NoPage ==
  [ stop |-> FALSE, spinner |-> FALSE, thinking |-> FALSE, working |-> FALSE,
    steps |-> FALSE, finished |-> FALSE, sources |-> FALSE, followUp |-> FALSE,
    text |-> NoText ]

hasProseContent(p) == p.text.len > StableMinLen

hasFinishedMarker(p) == p.finished /\ ~p.stop

InPageStatus_StepsBeforeStop(p) ==
  IF p.steps \/ p.finished THEN "completed"
  ELSE IF p.stop THEN "working"
  ELSE IF p.spinner \/ p.thinking THEN "working"
  ELSE IF p.working /\ ~p.followUp THEN "working"
  ELSE IF p.sources /\ ~p.working THEN "completed"
  ELSE IF p.working THEN "working"
  ELSE IF p.followUp /\ hasProseContent(p) /\ ~p.stop THEN "completed"
  ELSE "idle"

InPageStatus_MarkersBeforePhrases(p) ==
  IF p.stop THEN "working"
  ELSE IF p.spinner \/ p.thinking THEN "working"
  ELSE IF p.steps \/ hasFinishedMarker(p) THEN "completed"
  ELSE IF p.sources /\ ~p.working THEN "completed"
  ELSE IF p.working THEN "working"
  ELSE IF p.followUp /\ hasProseContent(p) /\ ~p.stop THEN "completed"
  ELSE "idle"

\* The status the in-page script computes from the signals.
InPageStatus(p) ==
  IF p.stop THEN "working"
  ELSE IF p.spinner \/ p.thinking THEN "working"
  ELSE IF p.working /\ ~p.followUp THEN "working"
  ELSE IF p.steps \/ hasFinishedMarker(p) THEN "completed"
  ELSE IF p.sources /\ ~p.working THEN "completed"
  ELSE IF p.working THEN "working"
  ELSE IF p.followUp /\ hasProseContent(p) /\ ~p.stop THEN "completed"
  ELSE "idle"

\* The three extraction strategies, first one yielding >= 50 characters wins.
ExtractResponse(p) ==
  LET s1 == IF p.steps THEN p.text ELSE NoText
      s2 == IF s1.len < StableMinLen /\ p.sources THEN p.text ELSE s1
      s3 == IF s2.len < StableMinLen /\ p.text.len > ProseMinLen THEN p.text ELSE s2
  IN  s3

(***************************************************************************)
(* The extraction on the text of the page.  A page text is a sequence of   *)
(* pieces: the steps-completed marker, the reviewed-sources marker, the    *)
(* UI phrase "Ask a follow-up", and answer texts of 60, 70 and 20          *)
(* characters; none holds a phrase the clean-up pass removes.  The prose   *)
(* blocks are a sequence of answer texts.                                  *)
(***************************************************************************)
\* Longest page text followed, in pieces.
MaxBodyLen == 4

AnswerPieces == {"A", "B", "short"}
BodyPieces == {"marker", "sources", "end"} \cup AnswerPieces

Bodies == UNION {[1..n -> BodyPieces] : n \in 0..MaxBodyLen}
ProseBlocks == {<<>>, <<"short">>, <<"A">>, <<"A", "B">>}

PieceLen(piece) ==
  CASE piece = "marker" -> 17
    [] piece = "sources" -> 18
    [] piece = "end" -> 15
    [] piece = "A" -> 60
    [] piece = "B" -> 70
    [] piece = "short" -> 20

\* String.length of a text made of pieces.
RECURSIVE TextLen(_)
TextLen(t) == IF t = <<>> THEN 0 ELSE PieceLen(Head(t)) + TextLen(Tail(t))

\* String.indexOf: position of the first occurrence, 0 = not found.
IndexOf(t, piece) ==
  LET hits == {i \in 1..Len(t) : t[i] = piece}
  IN  IF hits = {} THEN 0 ELSE CHOOSE i \in hits : \A j \in hits : i <= j

LastIndexOf(t, piece) ==
  LET hits == {i \in 1..Len(t) : t[i] = piece}
  IN  IF hits = {} THEN 0 ELSE CHOOSE i \in hits : \A j \in hits : i >= j

\* The text after position i, cut before the first end marker in it.
AfterMarker(t, i) ==
  LET after == SubSeq(t, i + 1, Len(t))
      e     == IndexOf(after, "end")
  IN  IF e = 0 THEN after ELSE SubSeq(after, 1, e - 1)

\* bodyText.indexOf(bodyText.match(re)[0]): the first match of the marker.
MarkerIndex(t, piece) == IndexOf(t, piece)

\* Strategy 1: the text after the steps-completed marker.
Strategy1(body) ==
  IF MarkerIndex(body, "marker") # 0 THEN AfterMarker(body, MarkerIndex(body, "marker"))
  ELSE <<>>

\* Strategy 2: the text after the reviewed-sources marker.
Strategy2(body, response) ==
  IF TextLen(response) < StableMinLen /\ MarkerIndex(body, "sources") # 0
  THEN AfterMarker(body, MarkerIndex(body, "sources"))
  ELSE response

\* validTexts.slice(-3).join('\n\n')
LastProse(prose) ==
  LET valid == SelectSeq(prose, LAMBDA b : PieceLen(b) > ProseMinLen)
  IN  SubSeq(valid, Len(valid) - Min(Len(valid), 3) + 1, Len(valid))

\* Strategy 3: the prose blocks.
Strategy3(prose, response) ==
  IF TextLen(response) < StableMinLen /\ LastProse(prose) # <<>> THEN LastProse(prose)
  ELSE response

\* The response the script extracts from a completed page.
ExtractFromBody(body, prose) == Strategy3(prose, Strategy2(body, Strategy1(body)))

\* The extraction block of the in-page script run on a page text.
ExtractResponseOf ==
  /\ ret.kind = "page"
  /\ ret' = [kind |-> "extractResponse", body |-> ret.body, prose |-> ret.prose,
             response |-> ExtractFromBody(ret.body, ret.prose)]
  /\ op' = "extractResponse"
  /\ UNCHANGED <<browserVars, connVars, tabRegistry, callVars, aiVars, mgrVars, ask, calls, send>>

CapResponse(t) == IF t.len > MaxResponseLen THEN [t EXCEPT !.len = MaxResponseLen] ELSE t

PageResponse_Unguarded(p) == CapResponse(ExtractResponse(p))

\* response of the in-page script: extracted only when status is completed.
PageResponse(p) ==
  IF InPageStatus(p) = "completed" THEN CapResponse(ExtractResponse(p)) ELSE NoText

\* isResponseStable: the counter after the call.
StableCountAfter(cur) ==
  IF cur.len > StableMinLen
  THEN IF cur = lastResponseText THEN stableResponseCount + 1 ELSE 0
  ELSE stableResponseCount

\* isResponseStable: the baseline text after the call.
LastTextAfter(cur) ==
  IF cur.len > StableMinLen /\ cur # lastResponseText THEN cur ELSE lastResponseText

IsResponseStable_NoFloor(cur) == StableCountAfter(cur) >= STABILITY_THRESHOLD

\* isResponseStable: the value returned.
IsResponseStable(cur) ==
  cur.len > StableMinLen /\ StableCountAfter(cur) >= STABILITY_THRESHOLD

\* The status getAgentStatus returns after the stability override.
FinalStatus(p, response, isStable) ==
  IF isStable /\ response.len > StableMinLen /\ ~p.stop THEN "completed" ELSE InPageStatus(p)

IdleStatus ==
  [ status |-> "idle", response |-> NoText, hasStopButton |-> FALSE, isStable |-> FALSE ]

AIInit ==
  /\ lastResponseText = NoText
  /\ stableResponseCount = 0
  /\ pageText = NoText
  /\ page = NoPage
  /\ inPageStatus = "idle"
  /\ agentStatus = IdleStatus

\* getAgentStatus() on a page that shows p: the AgentStatus returned.
AgentStatusOf(p) ==
  LET response == PageResponse(p)
      isStable == IsResponseStable(response)
  IN  [ status |-> FinalStatus(p, response, isStable),
        response |-> response,
        hasStopButton |-> p.stop,
        isStable |-> isStable ]

\* getAgentStatus() on a page that shows p: the fields of CometAI afterwards.
ReadAgentStatus(p) ==
  /\ StableCountAfter(PageResponse(p)) <= MaxStable
  /\ pageText' = p.text
  /\ inPageStatus' = InPageStatus(p)
  /\ stableResponseCount' = StableCountAfter(PageResponse(p))
  /\ lastResponseText' = LastTextAfter(PageResponse(p))
  /\ agentStatus' = AgentStatusOf(p)

\* One poll: the page shows p, getAgentStatus reads it.
GetAgentStatus(p) ==
  /\ ReadAgentStatus(p)
  /\ op' = "getAgentStatus"
  /\ UNCHANGED <<page, browserVars, connVars, tabRegistry, callVars, mgrVars, reqVars>>

\* Pages of every combination of signals, with no text or a substantial one.
RulePages == {p \in Pages : p.text \in {NoText, [id |-> 1, len |-> StableMinLen + 1]}}

\* One poll, the signals of the page kept.
GetAgentStatusOn(p) ==
  /\ ReadAgentStatus(p)
  /\ page' = p
  /\ op' = "getAgentStatus"
  /\ UNCHANGED <<browserVars, connVars, tabRegistry, callVars, mgrVars, reqVars>>

ResetTracking_KeepsBaseline ==
  /\ stableResponseCount' = 0
  /\ UNCHANGED <<lastResponseText, pageText, page, inPageStatus, agentStatus>>

\* resetStabilityTracking(): the fields of CometAI.
ResetTracking ==
  /\ lastResponseText' = NoText
  /\ stableResponseCount' = 0
  /\ UNCHANGED <<pageText, page, inPageStatus, agentStatus>>

ResetStabilityTracking ==
  /\ ResetTracking
  /\ op' = "resetStabilityTracking"
  /\ UNCHANGED <<browserVars, connVars, tabRegistry, callVars, mgrVars, reqVars>>

(***************************************************************************)
(* comet_ask: the polling loop                                             *)
(*                                                                         *)
(* The loop is followed iteration by iteration. What the remote session    *)
(* answers to the calls of an iteration (isOnPerplexityTab,                *)
(* ensureOnPerplexityTab, the wrapped evaluate, getAgentStatus,            *)
(* ensureConnection) is an input of the iteration; the connection calls    *)
(* themselves are followed in SpecConn.                                    *)
(***************************************************************************)
POLL_INTERVAL == 1500
IDLE_TIMEOUT == 6000
MAX_CONSECUTIVE_ERRORS == 5
DefaultTimeout == 120000
IdleMinLen == 100
FinalMinLen == 50

\* Longest timeout a caller passes, in poll intervals.
AskMaxPolls == 6

\* args.timeout: shorter than one poll interval, and AskMaxPolls intervals.
TimeoutArgs == {1000, POLL_INTERVAL * AskMaxPolls}

\* (args?.timeout as number) || 120000
maxTimeoutOf(arg) == IF arg = 0 THEN DefaultTimeout ELSE arg

\* Time one remote round of an iteration takes beyond the sleep.
RoundTimes == {0, POLL_INTERVAL}

\* Pages the assistant shows while a prompt is answered: nothing yet, the
\* stop button while it works, and a finished answer that is short or long.
AskPages ==
  { p \in Pages :
      /\ ~p.spinner /\ ~p.thinking /\ ~p.working
      /\ ~p.finished /\ ~p.sources /\ ~p.followUp
      /\ \/ ~p.steps /\ p.text = NoText
         \/ p.steps /\ ~p.stop
            /\ p.text \in {[id |-> 1, len |-> 18], [id |-> 3, len |-> MaxResponseLen + 1]} }

\* No comet_ask call made yet. elapsed is Date.now() - startTime capped at
\* maxTimeout, idle is Date.now() - lastActivityTime capped above IDLE_TIMEOUT.
AskIdle ==
  [pc |-> "idle", maxTimeout |-> 0, elapsed |-> 0, consecutiveErrors |-> 0,
   sawNewResponse |-> FALSE, previousResponse |-> NoText, idle |-> 0,
   exit |-> "none", result |-> "none"]

ReqInit ==
  /\ ret = NoRet /\ ask = AskIdle /\ calls = [c \in CallIds |-> CallIdle]
  /\ send = SendIdle

AskFrame == UNCHANGED <<browserVars, connVars, tabRegistry, countChecked, closeCalls,
                        protected, mgrVars, ret, calls, send>>

\* The call returns: how the loop was left and what the result carries. The
\* handler's locals are gone; the timeout, the time spent and whether a new
\* response had been seen are kept.
AskReturn(a, exit, result) ==
  [AskIdle EXCEPT !.exit = exit, !.result = result,
                  !.maxTimeout = a.maxTimeout, !.elapsed = a.elapsed,
                  !.sawNewResponse = a.sawNewResponse]

\* Everything before the loop: validation, pre-operation check, getting on
\* the Perplexity page, resetStabilityTracking and sendPrompt.
AskBegin(arg, how) ==
  /\ ask.pc = "idle"
  /\ CASE how = "empty_prompt" ->
            /\ ask' = AskReturn(AskIdle, "rejected", "message")
            /\ isError' = FALSE
            /\ UNCHANGED aiVars
       [] how = "no_connection" ->
            /\ ask' = AskReturn(AskIdle, "rejected", "message")
            /\ isError' = FALSE
            /\ UNCHANGED aiVars
       [] how = "navigate_threw" ->
            /\ ask' = AskReturn(AskIdle, "threw", "error")
            /\ isError' = TRUE
            /\ UNCHANGED aiVars
       [] how = "send_threw" ->
            /\ ask' = AskReturn(AskIdle, "threw", "error")
            /\ isError' = TRUE
            /\ ResetTracking
       [] OTHER ->
            /\ ask' = [AskIdle EXCEPT !.pc = "loop", !.maxTimeout = maxTimeoutOf(arg)]
            /\ isError' = FALSE
            /\ ResetTracking
  /\ op' = "comet_ask"
  /\ AskFrame

BeginOutcomes == {"empty_prompt", "no_connection", "navigate_threw", "send_threw", "sent"}

PollAdvance_NoSleep(took) == took

\* Time one iteration takes: the sleep and the remote round.
PollAdvance(took) == POLL_INTERVAL + took

\* The loop's clocks after the sleep and the remote round of an iteration.
AskTick(a, took) ==
  [a EXCEPT !.elapsed = Min(@ + PollAdvance(took), a.maxTimeout),
            !.idle = Min(@ + PollAdvance(took), IDLE_TIMEOUT + POLL_INTERVAL)]

\* while (Date.now() - startTime < maxTimeout)
InLoop == ask.pc = "loop" /\ ask.elapsed < ask.maxTimeout

\* An iteration that finds the client off the Perplexity tab and cannot
\* switch back: counted, next poll.
AskPollTabLost(took) ==
  /\ InLoop
  /\ ask' = [AskTick(ask, took) EXCEPT !.consecutiveErrors = @ + 1]
  /\ op' = "comet_ask"
  /\ UNCHANGED <<aiVars, isError>>
  /\ AskFrame

\* The completion conditions of an iteration on status st.
AskCompleted(st, saw, idle) ==
  \/ st.status = "completed" /\ saw /\ st.response.len > 0
  \/ st.isStable /\ saw /\ st.response.len > 0 /\ ~st.hasStopButton
  \/ /\ idle > IDLE_TIMEOUT /\ saw /\ st.response.len > 0
     /\ st.response.len > IdleMinLen /\ ~st.hasStopButton

\* An iteration whose calls all return: the page shows p, fresh tells
\* whether the prose differs from the state captured before the prompt,
\* newStep whether the status lists a step not collected yet.
AskPollOk(took, p, fresh, newStep) ==
  /\ InLoop
  /\ ReadAgentStatus(p)
  /\ UNCHANGED page
  /\ LET a    == AskTick(ask, took)
         st   == AgentStatusOf(p)
         saw  == a.sawNewResponse \/ fresh
         idle == IF st.response # a.previousResponse \/ newStep THEN 0 ELSE a.idle
         b    == [a EXCEPT !.sawNewResponse = saw, !.consecutiveErrors = 0,
                           !.previousResponse = st.response, !.idle = idle]
     IN  ask' = IF AskCompleted(st, saw, idle) THEN AskReturn(b, "completed", "response")
                ELSE b
  /\ op' = "comet_ask"
  /\ UNCHANGED isError
  /\ AskFrame

\* An iteration in which the wrapped evaluate or getAgentStatus throws:
\* fresh as above when it is getAgentStatus that throws, recovered is what
\* ensureOnPerplexityTab returns in the catch block, hard is how
\* ensureConnection ends when the budget is reached.
AskPollThrows(took, fresh, recovered, hard) ==
  /\ InLoop
  /\ LET a  == [AskTick(ask, took) EXCEPT !.sawNewResponse = @ \/ fresh]
         c1 == a.consecutiveErrors + 1
     IN  ask' = IF recovered
                THEN [a EXCEPT !.consecutiveErrors = IF c1 - 1 > 0 THEN c1 - 1 ELSE 0]
                ELSE IF c1 >= MAX_CONSECUTIVE_ERRORS
                THEN IF hard = "ok"
                     THEN [a EXCEPT !.consecutiveErrors = 0]
                     ELSE [a EXCEPT !.consecutiveErrors = c1, !.pc = "final",
                                    !.exit = "gave_up"]
                ELSE [a EXCEPT !.consecutiveErrors = c1]
  /\ op' = "comet_ask"
  /\ UNCHANGED <<aiVars, isError>>
  /\ AskFrame

\* The loop guard fails: the timeout has elapsed.
AskTimeout ==
  /\ ask.pc = "loop"
  /\ ask.elapsed >= ask.maxTimeout
  /\ ask' = [ask EXCEPT !.pc = "final", !.exit = "timeout"]
  /\ op' = "comet_ask"
  /\ UNCHANGED <<aiVars, isError>>
  /\ AskFrame

\* After the loop: getAgentStatus once more on a page that shows p, and the
\* response or the progress message.
AskFinal(p) ==
  /\ ask.pc = "final"
  /\ ReadAgentStatus(p)
  /\ UNCHANGED page
  /\ ask' = AskReturn(ask, ask.exit,
                      IF AgentStatusOf(p).response.len > FinalMinLen
                      THEN "response" ELSE "progress")
  /\ isError' = FALSE
  /\ op' = "comet_ask"
  /\ AskFrame

\* After the loop: getAgentStatus throws, the handler's catch-all turns the
\* error into an isError result.
AskFinalThrows ==
  /\ ask.pc = "final"
  /\ ask' = AskReturn(ask, ask.exit, "error")
  /\ isError' = TRUE
  /\ op' = "comet_ask"
  /\ UNCHANGED aiVars
  /\ AskFrame

\* The steps of a call that has entered its loop.
AskStep ==
  \/ \E took \in RoundTimes : AskPollTabLost(took)
  \/ \E took \in RoundTimes, p \in AskPages, fresh \in BOOLEAN, newStep \in BOOLEAN :
       AskPollOk(took, p, fresh, newStep)
  \/ \E took \in RoundTimes, fresh \in BOOLEAN, recovered \in BOOLEAN,
         hard \in {"ok", "throws"} : AskPollThrows(took, fresh, recovered, hard)
  \/ AskTimeout
  \/ \E p \in AskPages : AskFinal(p)
  \/ AskFinalThrows

(***************************************************************************)
(* Specifications                                                          *)
(***************************************************************************)
\* Tool calls on tabs against a browser whose tabs come and go.
TabsInit ==
  /\ op = "init" /\ AIInit /\ BrowserInit /\ ClientInit /\ CallInit
  /\ HealthInit /\ RetryInit /\ ReqInit

TabsNext ==
  \/ CometConnect
  \/ CometTabsList
  \/ \E arg \in TabArgs : CometTabsSwitch(arg)
  \/ \E arg \in TabArgs : CometTabsClose(arg)
  \/ TabOpens(ToolTargets)
  \/ TabNavigates(ToolUrls)
  \/ TabCloses

SpecTabs == TabsInit /\ [][TabsNext]_vars

\* A tabId that designates no target of the browser.
UnknownTabId == MaxTabs + 1

\* Arguments of comet_tabs close: those of TabArgs, and an unknown tabId.
CloseArgs == TabArgs \cup {[tabId |-> UnknownTabId, domain |-> <<>>]}

\* comet_tabs close and list calls with any argument, while tabs come and go.
CloseInit == TabsInit

CloseNext ==
  \/ \E arg \in CloseArgs : CometTabsClose(arg)
  \/ CometTabsList
  \/ TabOpens(ToolTargets)
  \/ TabNavigates(ToolUrls)
  \/ TabCloses

SpecClose == CloseInit /\ [][CloseNext]_vars

\* refresh() calls against a browser whose targets are of every kind.
RegistryInit == TabsInit

RegistryNext ==
  \/ CometTabsList
  \/ TabOpens(OpenTargets)
  \/ TabNavigates(Urls)
  \/ TabCloses

SpecRegistry == RegistryInit /\ [][RegistryNext]_vars

\* findTabByDomain queries against tabs on sites whose host names overlap.
FindInit == TabsInit

FindNext ==
  \/ \E d \in FindDomains : FindTabByDomain(d)
  \/ TabOpens(FindTargets)
  \/ TabNavigates(FindUrls)
  \/ TabCloses

SpecFind == FindInit /\ [][FindNext]_vars

\* Every operation on the registry, while tabs open, navigate and close.
RegistryOpsInit == TabsInit

RegistryOpsNext ==
  \/ CometTabsList
  \/ \E d \in DomainArgs : FindTabByDomain(d)
  \/ \E d \in DomainArgs : FindTabByUrl(d)
  \/ \E purpose \in Purposes : FindTabsByPurpose(purpose)
  \/ \E id \in TabIds, purpose \in Purposes : SetTabPurpose(id, purpose)
  \/ \E id \in TabIds : SetTabContentSummary(id)
  \/ \E url \in NavigateUrls, purpose \in Purposes, ok \in BOOLEAN :
       NavigateOrReuseTab(url, purpose, ok)
  \/ TabOpens(ToolTargets)
  \/ TabNavigates(ToolUrls)
  \/ TabCloses

SpecRegistryOps == RegistryOpsInit /\ [][RegistryOpsNext]_vars

\* The targets a refresh tells apart: pages of the Perplexity UI, blank
\* pages, pages of two external sites, and a service worker.
RefreshUrls == {U_Perplexity, U_Blank, U_Shop, U_GitHub}
RefreshTargets ==
  [type : {"page"}, url : RefreshUrls] \cup {[type |-> "service_worker", url |-> U_Shop]}

\* refresh() and setTabPurpose calls while such targets open, navigate and
\* close.
RefreshInit == TabsInit

RefreshNext ==
  \/ RefreshTabRegistry
  \/ \E id \in TabIds : SetTabPurpose(id, "data-read")
  \/ TabOpens(RefreshTargets)
  \/ TabNavigates(RefreshUrls)
  \/ TabCloses

SpecRefresh == RefreshInit /\ [][RefreshNext]_vars

\* sendPrompt calls, one at a time, on pages of every shape.
SendInit == TabsInit

SendNext ==
  \/ \E d \in SendPages, len \in PromptLens : SendPrompt(d, len)
  \/ \E took \in BOOLEAN : SendType(took)
  \/ SubmitHasContent
  \/ SubmitEnter
  \/ SubmitSubmitted
  \/ \E button \in BOOLEAN : SubmitClick(button)
  \/ SubmitFinalCheck
  \/ \E form \in BOOLEAN : SubmitForm(form)
  \/ \E msg \in OpErrors : SendEvaluateThrows(msg)

SpecSend == SendInit /\ [][SendNext]_vars

\* The extraction applied to each page text.
ExtractInit ==
  /\ op = "init" /\ AIInit /\ BrowserInit /\ ClientInit /\ CallInit
  /\ HealthInit /\ RetryInit
  /\ ask = AskIdle /\ calls = [c \in CallIds |-> CallIdle] /\ send = SendIdle
  /\ ret \in [kind : {"page"}, body : Bodies, prose : ProseBlocks]

ExtractNext == ExtractResponseOf

SpecExtract == ExtractInit /\ [][ExtractNext]_vars

\* isConnectionHealthy calls between connect, disconnect and reconnect calls.
HealthSessionInit == TabsInit

HealthSessionNext ==
  \/ IsConnectionHealthy
  \/ \E id \in TabIds, how \in ConnectOutcomes : ClientConnect(id, how)
  \/ \E close \in {"ok", "throws"} : Disconnect(close)
  \/ Reconnect
  \/ TimePasses
  \/ TabOpens(ConnTargets)
  \/ TabCloses

SpecHealthSession == HealthSessionInit /\ [][HealthSessionNext]_vars

\* Calls on the session while tabs open and close.
SessionInit == TabsInit

SessionNext ==
  \/ \E id \in TabIds, how \in ConnectOutcomes : ClientConnect(id, how)
  \/ \E close \in {"ok", "throws"} : Disconnect(close)
  \/ Reconnect
  \/ \E out \in StopOutcomes : CometStop(out)
  \/ TabOpens(ToolTargets)
  \/ TabCloses

SpecSession == SessionInit /\ [][SessionNext]_vars

\* comet_ask calls, one at a time, against a session that answers anything.
AskInit == TabsInit

AskNext ==
  \/ \E arg \in TimeoutArgs, how \in BeginOutcomes : AskBegin(arg, how)
  \/ AskStep

SpecAsk == AskInit /\ [][AskNext]_vars

\* The same calls when every remote call and every sleep returns.
SpecAskFair == SpecAsk /\ WF_vars(AskStep)

\* Polls of the completion detector against a page that shows anything.
StatusInit ==
  /\ op = "init" /\ AIInit /\ BrowserInit /\ ClientInit /\ CallInit
  /\ HealthInit /\ RetryInit /\ ReqInit

StatusNext ==
  \/ \E p \in Pages : GetAgentStatus(p)
  \/ ResetStabilityTracking

SpecStatus == StatusInit /\ [][StatusNext]_vars

\* Polls of the completion detector, the signals of each page kept.
RulesInit == TabsInit

RulesNext ==
  \/ \E p \in RulePages : GetAgentStatusOn(p)
  \/ ResetStabilityTracking

SpecRules == RulesInit /\ [][RulesNext]_vars

\* withAutoReconnect calls, one at a time, while tabs come and go and the
\* clock advances.
ConnInit == TabsInit

ConnNext ==
  \/ WR_Begin
  \/ WR_Operation
  \/ WR_Reconnect
  \/ WR_Retry
  \/ WR_ColdStart
  \/ WR_ColdRetry
  \/ TabOpens(ConnTargets)
  \/ TabCloses
  \/ TimePasses

SpecConn == ConnInit /\ [][ConnNext]_vars

\* Two withAutoReconnect calls on the same client, each made again when it
\* has ended.
OverlapTargets ==
  { [id \in TabIds |-> Closed],
    [id \in TabIds |-> IF id = 1 THEN [type |-> "page", url |-> U_Perplexity] ELSE Closed] }

OverlapInit ==
  /\ op = "init" /\ AIInit /\ targets \in OverlapTargets /\ ClientInit /\ CallInit
  /\ HealthInit /\ RetryInit /\ ReqInit

OverlapNext ==
  \/ \E c \in CallIds : CallEnter(c)
  \/ \E c \in CallIds : WaitWake(c)
  \/ \E c \in CallIds : ProbeEnd(c)
  \/ \E c \in CallIds : PreReconnectEnd(c)
  \/ \E c \in CallIds : OperationEnd(c)
  \/ \E c \in CallIds : BackoffEnd(c)
  \/ \E c \in CallIds : ReconnectEnd(c)
  \/ \E c \in CallIds : RetryEnd(c)
  \/ \E c \in CallIds : ColdStartEnd(c)
  \/ \E c \in CallIds : ColdRetryEnd(c)

SpecOverlap == OverlapInit /\ [][OverlapNext]_vars

\* The same calls when every sleep of a wait loop ends.
SpecOverlapFair == SpecOverlap /\ \A c \in CallIds : WF_vars(WaitWake(c))

\* isConnectionHealthy calls, one at a time, with and without a session.
HealthCallsInit == TabsInit

HealthCallsNext ==
  \/ IsConnectionHealthy
  \/ InvalidateHealthCache
  \/ TimePasses
  \/ CometConnect

SpecHealth == HealthCallsInit /\ [][HealthCallsNext]_vars

(***************************************************************************)
(* Claims about tabs (checked under SpecTabs and SpecRegistry)             *)
(***************************************************************************)
\* C1 (as claimed): once an external tab is open and the application closes
\* or navigates away none, no tool call that invokes closeTab leaves zero
\* external tabs, and every closeTab a tool call makes follows a count check
\* that found more than one external tab.
C1_ToolsKeepAnExternalTab ==
  (protected /\ closeCalls # {}) =>
    /\ ExternalOpen(targets) >= 1
    /\ countChecked > 1

\* C2: a comet_tabs close issued while at most one external tab is open finds
\* that count, returns an error result, calls closeTab for no target and
\* leaves the open targets as they were.
C2_CloseRejectedAtLastTab ==
  [][ (op' = "comet_tabs_close" /\ ExternalOpen(targets) <= 1)
      => /\ countChecked' = ExternalOpen(targets)
         /\ isError'
         /\ closeCalls' = {}
         /\ targets' = targets ]_vars

\* C2 witness: a close was refused with exactly one external tab open, next
\* to an open Perplexity tab.
C2_Witness ==
  /\ op = "comet_tabs_close"
  /\ countChecked = 1
  /\ isError
  /\ ExternalOpen(targets) = 1
  /\ \E id \in TabIds : targets[id] = [type |-> "page", url |-> U_Perplexity]

\* C3: no registry entry records an internal URL, and right after a refresh
\* every entry is an open page target on the external URL the entry records.
C3_RegistryOnlyExternal ==
  /\ \A i \in 1..Len(tabRegistry) : tabRegistry[i].url \notin InternalUrls
  /\ op = "comet_tabs_list" =>
       \A i \in 1..Len(tabRegistry) :
         /\ targets[tabRegistry[i].id].type = "page"
         /\ targets[tabRegistry[i].id].url = tabRegistry[i].url
         /\ \A j \in 1..Len(tabRegistry) : tabRegistry[j].id = tabRegistry[i].id => j = i

\* C3 witness: a refresh kept one external tab while another open target is
\* an internal page or not a page at all.
C3_Witness ==
  /\ op = "comet_tabs_list"
  /\ Len(tabRegistry) = 1
  /\ \E id \in TabIds :
       /\ targets[id] # Closed
       /\ targets[id].type # "page" \/ targets[id].url \in InternalUrls

(***************************************************************************)
(* Claims about withAutoReconnect (checked under SpecConn)                 *)
(***************************************************************************)
\* The first invocation of the operation threw an error whose message
\* matches none of the connection signatures.
FirstErrorNotTransient == wr.error # NoError /\ ~isConnectionError(wr.error.msg)

\* C4 (as claimed): when the operation throws an error matching no
\* connection signature, the call throws that same error, the operation has
\* run exactly once and reconnect() was not called during the call.
C4_NonTransientNoReconnect ==
  FirstErrorNotTransient =>
    /\ pc = "idle" /\ wr.result = "threw"
    /\ wr.thrown = wr.error
    /\ wr.opCalls = 1
    /\ wr.reconnects = 0

\* C4 (amended): when the first invocation of the operation throws an error
\* matching no connection signature, the call throws that same error, the
\* operation has run exactly once and reconnect() is not called after the
\* operation ran; preOperationCheck may have called it before.
C4_NonTransientPropagates ==
  FirstErrorNotTransient =>
    /\ pc = "idle" /\ wr.result = "threw"
    /\ wr.thrown = wr.error
    /\ wr.opCalls = 1
    /\ wr.reconnectsAfterOp = 0

C4_Witness ==
  /\ pc = "idle" /\ wr.result = "threw"
  /\ wr.error = Error(E_NotConnected, 1) /\ wr.thrown = wr.error
  /\ wr.reconnects = 1

\* C5: whenever a withAutoReconnect call returns a value, on the first
\* invocation, on the retry after reconnect() or on the retry after the
\* fresh start, reconnectAttempts is 0 when it returns.
C5_ReturnLeavesCounterZero ==
  (pc = "idle" /\ wr.result = "returned") => reconnectAttempts = 0

C5_Witness ==
  /\ pc = "idle" /\ wr.result = "returned" /\ wr.opCalls = 2
  /\ isConnectionError(wr.error.msg)
  /\ reconnectAttempts = 0

(***************************************************************************)
(* Claims about the completion detector (checked under SpecStatus)         *)
(***************************************************************************)
Polled == op = "getAgentStatus"

\* The stability condition of the override: stable, substantial text.
StabilityHolds == agentStatus.isStable /\ agentStatus.response.len > StableMinLen

\* C6: on every poll that sees an active stop affordance the returned status
\* is working, whatever the other signals and the stability counter are; and
\* completed is returned only on a poll without a stop affordance on which
\* the in-page completion rules or the stability condition hold.
C6_StopMeansWorking ==
  Polled =>
    /\ agentStatus.hasStopButton => agentStatus.status = "working"
    /\ agentStatus.status = "completed" =>
         /\ ~agentStatus.hasStopButton
         /\ inPageStatus = "completed" \/ StabilityHolds

\* C6 witness: a poll sees the stop affordance while the page still shows the
\* text that already reached the stability threshold.
C6_Witness ==
  /\ Polled
  /\ agentStatus.hasStopButton
  /\ stableResponseCount >= STABILITY_THRESHOLD
  /\ CapResponse(pageText) = lastResponseText
  /\ agentStatus.status = "working"

\* C7 (as claimed): when two consecutive polls see the same response text of
\* at least 50 characters and no stop affordance, the second poll returns
\* completed, whatever the phrase-marker signals are.
C7_TwoIdenticalPollsComplete ==
  [][ ( /\ Polled /\ op' = "getAgentStatus"
        /\ pageText' = pageText
        /\ pageText.len >= StableMinLen
        /\ ~agentStatus.hasStopButton
        /\ ~agentStatus'.hasStopButton )
      => agentStatus'.status = "completed" ]_vars

\* C8: a returned AgentStatus with a non-empty response has status completed.
C8_ResponseOnlyWhenCompleted ==
  agentStatus.response # NoText => agentStatus.status = "completed"

\* C8 witness: a poll returned a response, and the counter is past the
\* threshold.
C8_Witness ==
  /\ Polled
  /\ agentStatus.response # NoText
  /\ stableResponseCount >= STABILITY_THRESHOLD

\* C9: a poll whose extracted text is below the 50-character floor leaves the
\* stability counter and baseline alone, returns isStable = FALSE, and its
\* status is the in-page status (no promotion by stability).
C9_ShortTextNeverStable ==
  [][ (op' = "getAgentStatus" /\ agentStatus'.response.len < StableMinLen)
      => /\ stableResponseCount' = stableResponseCount
         /\ lastResponseText' = lastResponseText
         /\ ~agentStatus'.isStable
         /\ agentStatus'.status = inPageStatus' ]_vars

\* C9 witness: an 18-character text was extracted on a poll taken while the
\* counter already stood at the threshold.
C9_Witness ==
  /\ Polled
  /\ agentStatus.response.len > 0
  /\ agentStatus.response.len < StableMinLen
  /\ stableResponseCount >= STABILITY_THRESHOLD
  /\ ~agentStatus.isStable

(***************************************************************************)
(* Claims about the health cache (checked under SpecHealth)                *)
(***************************************************************************)
\* C10 (as claimed): an isConnectionHealthy call that begins less than 2000
\* ms after an earlier call began, with no invalidation in between, sends no
\* probe and returns the cached boolean.
C10_SecondCheckIsCached ==
  /\ hcLast.sinceProbe < HEALTH_CHECK_CACHE_MS => hcLast.kind # "probed"
  /\ hcLast.sinceCall < HEALTH_CHECK_CACHE_MS =>
       hcLast.kind # "probed" /\ hcLast.result = hcLast.cacheBefore

\* C10 (amended): an isConnectionHealthy call that begins less than 2000 ms
\* after an earlier call began, with no invalidation in between, sends no
\* probe if the earlier call sent one; and if the earlier call refreshed the
\* cache (it sent the probe or found no session) the later call sends no
\* probe and returns the cached boolean.
C10_CheckAfterRefreshIsCached ==
  /\ hcLast.sinceProbe < HEALTH_CHECK_CACHE_MS => hcLast.kind # "probed"
  /\ hcLast.sinceRefresh < HEALTH_CHECK_CACHE_MS =>
       hcLast.kind # "probed" /\ hcLast.result = hcLast.cacheBefore

C10_Witness ==
  /\ op = "isConnectionHealthy"
  /\ hcLast.sinceProbe > 0 /\ hcLast.sinceProbe < HEALTH_CHECK_CACHE_MS
  /\ hcLast.kind = "cached" /\ hcLast.result /\ client # 0

(***************************************************************************)
(* C11  findTabByDomain after a refresh                                    *)
(***************************************************************************)
\* C11 (as claimed): when findTabByDomain(d) has refreshed the registry and
\* returned, and exactly one registered tab has domain d, the entry returned
\* is that tab's, whatever other tabs are registered.
C11_FindReturnsTheRegisteredTab ==
  op = "findTabByDomain" =>
    \A i \in 1..Len(tabRegistry) :
      ( /\ tabRegistry[i].domain = ret.domain
        /\ \A j \in 1..Len(tabRegistry) :
             tabRegistry[j].domain = ret.domain => j = i )
      => ret.id = tabRegistry[i].id

(***************************************************************************)
(* C12-C14  comet_ask polling loop                                         *)
(***************************************************************************)
\* C12 (as claimed): a comet_ask call whose loop ended because the timeout
\* elapsed or because the harder recovery gave up returns a result that is
\* not an error and carries the response text or the progress message.
C12_LoopEndReturnsPartialStatus ==
  (ask.pc = "idle" /\ ask.exit \in {"timeout", "gave_up"}) =>
    (~isError /\ ask.result \in {"response", "progress"})

\* C13 (as claimed): the loop never goes on to another poll with the
\* consecutive-error count at or above the budget: a failed poll that brings
\* the count there runs the harder recovery, which resets the count or ends
\* the loop.
C13_BudgetTriggersHarderRecovery ==
  ask.pc = "loop" => ask.consecutiveErrors < MAX_CONSECUTIVE_ERRORS

\* C14: when every remote call and sleep returns, a comet_ask call that has
\* started eventually returns.
C14_AskEventuallyReturns == (ask.pc # "idle") ~> (ask.pc = "idle")

\* C14 witness: a call with the longest timeout polled until the timeout
\* had elapsed, and returned.
C14_Witness ==
  /\ ask.pc = "idle"
  /\ ask.exit = "timeout"
  /\ ask.maxTimeout = POLL_INTERVAL * AskMaxPolls
  /\ ask.elapsed >= ask.maxTimeout
  /\ ask.result \in {"response", "progress"}

(***************************************************************************)
(* C15  disconnect                                                         *)
(***************************************************************************)
\* C15 (as claimed): after a disconnect() that returned there is no
\* session, connected is false and no active tab id is set; a disconnect()
\* that follows one that returned makes no remote call and leaves the
\* connection fields as they were.
C15_DisconnectIdempotent ==
  (op = "disconnect" /\ ret.returned) =>
    /\ client = 0 /\ ~connected /\ activeTabId = 0
    /\ ret.second => (ret.remote = 0 /\ Conn = ret.before)

(***************************************************************************)
(* C16  reconnect: choice of the target                                    *)
(***************************************************************************)
\* Index of the first page of the listing whose URL satisfies ok, 0 if none.
FirstPage(list, ok(_)) ==
  LET hits == {i \in 1..Len(list) : list[i].type = "page" /\ ok(list[i].url)}
  IN  IF hits = {} THEN 0 ELSE list[CHOOSE i \in hits : \A j \in hits : i <= j].id

\* The target the stated priority yields: the previous target when
\* usePrevious, else the first Perplexity page, else the first page that is
\* not about:blank, else 0.
PriorityTarget(list, last, usePrevious) ==
  IF usePrevious THEN last
  ELSE IF FirstPage(list, LAMBDA u : Includes(u, <<"perplexity.ai">>)) # 0
  THEN FirstPage(list, LAMBDA u : Includes(u, <<"perplexity.ai">>))
  ELSE FirstPage(list, LAMBDA u : u # U_Blank)

StillListed(list, last) == last # 0 /\ \E i \in 1..Len(list) : list[i].id = last

\* C16 (as claimed): reconnect() connects to the previous target when it is
\* still listed, else to the first Perplexity page, else to the first page
\* that is not about:blank, and throws the no-target error exactly when
\* none of them exists.
C16_ReconnectPriority ==
  op = "reconnect" =>
    LET want == PriorityTarget(ret.list, ret.last, StillListed(ret.list, ret.last))
    IN  /\ ret.error = Returns => client = want
        /\ ret.error = E_NoSuitableTab <=> (want = 0 /\ ret.error # E_CannotConnect)

\* C16 (amended): the same, the previous target counting only when it is
\* still listed and connecting to it did not fail.
C16_ReconnectPriorityAfterFailedConnect ==
  op = "reconnect" =>
    LET want == PriorityTarget(ret.list, ret.last,
                               StillListed(ret.list, ret.last) /\ ~ret.lastFailed)
    IN  /\ ret.error = Returns => client = want
        /\ ret.error = E_NoSuitableTab <=> (want = 0 /\ ret.error # E_CannotConnect)

\* C16 witness: with the previous target gone, a shopping page listed first
\* and a Perplexity page second, reconnect() connected to the second.
C16_Witness ==
  /\ op = "reconnect"
  /\ ret.error = Returns
  /\ ~StillListed(ret.list, ret.last)
  /\ Len(ret.list) = 2
  /\ ret.list[1].url = U_Shop
  /\ ret.list[2].url = U_Perplexity
  /\ client = ret.list[2].id

(***************************************************************************)
(* C19  stopAgent                                                          *)
(***************************************************************************)
\* C19: a comet_stop call leaves connected, the session, the active tab id,
\* the last target id, the reconnect counter and the health cache as they
\* were, whatever the script found.
C19_StopLeavesConnection ==
  [][op' = "comet_stop" => UNCHANGED <<connVars, healthVars>>]_vars

\* C19 witness: on a connected session the script found and clicked the
\* stop button.
C19_Witness ==
  /\ op = "comet_stop"
  /\ ret.found
  /\ connected /\ client # 0 /\ activeTabId = client

(***************************************************************************)
(* C18  comet_connect and the open tabs                                    *)
(***************************************************************************)
\* C18 (as claimed): a comet_connect call passes no target to closeTab, and
\* every target that was open before the call is open after it.
C18_ConnectPreservesTabs ==
  [][op' = "comet_connect" =>
       /\ closeCalls' = {}
       /\ \A id \in TabIds : targets[id] # Closed => targets'[id] # Closed]_vars

(***************************************************************************)
(* C17  stale active tab                                                   *)
(***************************************************************************)
\* The active tab id is set and no open target has it.
StaleActiveTab == activeTabId # 0 /\ ~IsOpen(targets, activeTabId)

\* C17 (as claimed): when a wrapped call begins with the active tab id set
\* and absent from the targets a listing would return, its pre-operation
\* check triggers a reconnection before the operation is invoked.
C17_StaleTabTriggersReconnect ==
  [][(pc = "idle" /\ pc' = "operation" /\ StaleActiveTab) => wr'.reconnects = 1]_vars

(***************************************************************************)
(* C20  the registry under every registry operation                        *)
(***************************************************************************)
\* C20 (as claimed): whatever registry operations have run (refreshes,
\* setTabPurpose, setTabContentSummary, the find queries, navigateOrReuseTab
\* for any url), no registry entry records an internal URL.
C20_RegistryOpsOnlyExternal ==
  \A i \in 1..Len(tabRegistry) : ~isInternalTab(tabRegistry[i].url)

(***************************************************************************)
(* C21  stability tracking at the start of a task                          *)
(***************************************************************************)
\* C21: when comet_ask has reset the tracking and sent the prompt, the
\* stability counter is 0 and the baseline text is empty; and while the
\* task's loop runs the counter is below the number of polls the task has
\* made, so nothing read for an earlier task counts.
C21_TaskStartsWithFreshTracking ==
  /\ (ask.pc = "loop" /\ ask.elapsed = 0) =>
       (stableResponseCount = 0 /\ lastResponseText = NoText)
  /\ (ask.pc = "loop" /\ ask.elapsed < ask.maxTimeout /\ stableResponseCount > 0) =>
       (stableResponseCount + 1) * POLL_INTERVAL <= ask.elapsed

\* C21 witness: a task has just been started after a task whose last poll
\* returned a stable response.
C21_Witness ==
  /\ ask.pc = "loop" /\ ask.elapsed = 0
  /\ agentStatus.isStable
  /\ agentStatus.response.len > StableMinLen
  /\ stableResponseCount = 0 /\ lastResponseText = NoText

(***************************************************************************)
(* C22  the wait for a reconnect in progress                               *)
(***************************************************************************)
\* C22: a call that found isReconnecting set sleeps 300 ms at a time, has
\* slept at most 19 times while it is still in the loop, and goes on to the
\* pre-operation check, whether or not the flag is ever cleared.
C22_WaitIsBounded ==
  /\ [](\A c \in CallIds :
          /\ calls[c].waitCount <= MAX_WAIT_COUNT
          /\ calls[c].pc = "wait" => calls[c].waitCount < MAX_WAIT_COUNT
          /\ calls[c].waited = WAIT_INTERVAL * calls[c].waitCount)
  /\ \A c \in CallIds : (calls[c].pc = "wait") ~> (calls[c].pc # "wait")

\* C22 witness: a call has slept 20 times and gone on to its pre-operation
\* check while isReconnecting is still set.
C22_Witness ==
  \E c \in CallIds :
    /\ calls[c].pc \in {"probe", "pre_reconnect"}
    /\ calls[c].waitCount = MAX_WAIT_COUNT
    /\ calls[c].waited = WAIT_INTERVAL * MAX_WAIT_COUNT
    /\ isReconnecting

(***************************************************************************)
(* C23  overlapping calls and the reconnect in progress                    *)
(***************************************************************************)
\* The operation of call c has been invoked and has not settled.
Executing(c) == calls[c].pc \in {"operation", "retry", "cold_retry"}

\* A reconnect() begun by call c has not settled.
Reconnecting(c) == calls[c].pc \in {"pre_reconnect", "reconnect"}

\* The recovery of call c, reconnect() or the fresh start, is in progress.
Recovering(c) == calls[c].pc \in {"reconnect", "cold_start"}

\* C23 (as claimed): of two overlapping calls, the operation of one never
\* executes while a reconnect() or a fresh start begun by the other is in
\* progress, and at most one reconnect() is in progress at any time.
C23_NoOperationDuringReconnect ==
  \A c, d \in CallIds :
    c # d =>
      /\ ~(Executing(c) /\ (Reconnecting(d) \/ Recovering(d)))
      /\ ~(Reconnecting(c) /\ Reconnecting(d))

(***************************************************************************)
(* C24  the recovery sequence of one call                                  *)
(***************************************************************************)
\* The step is reconnect() throwing, or the retry after it throwing.
RecoveryFails ==
  \/ pc = "reconnect" /\ pc' \notin {"reconnect", "retry"}
  \/ pc = "retry" /\ pc' # "retry" /\ wr'.result # "returned"

\* The order of the steps of a call: the cache is invalidated when the
\* transient error is caught, reconnect() follows, one retry follows a
\* reconnect() that returned, one fresh start follows a failure, and one
\* retry follows the fresh start.
RecoveryOrder ==
  /\ (pc = "operation" /\ pc' = "reconnect") =>
       (~healthCheckCache' /\ healthAge' = HEALTH_CHECK_CACHE_MS /\ wr'.opCalls = 1)
  /\ pc' = "reconnect" => pc \in {"operation", "reconnect"}
  /\ pc' = "retry" => pc \in {"reconnect", "retry"}
  /\ (pc = "reconnect" /\ pc' = "retry") => wr'.reconnectsAfterOp = 1
  /\ (pc = "retry" /\ pc' # "retry") => wr'.opCalls = 2
  /\ pc' = "cold_start" => pc \in {"reconnect", "retry", "cold_start"}
  /\ pc' = "cold_retry" => pc \in {"cold_start", "cold_retry"}
  /\ pc \in {"cold_start", "cold_retry"} => pc' \in {pc, "cold_retry", "idle"}
  /\ wr'.opCalls <= 3

\* C24 (as claimed): the steps of a call come in that order, a failure of
\* reconnect() or of the retry is followed by the fresh start, the operation
\* is invoked at most 3 times and reconnect() at most once in the call.
C24_RecoverySequence ==
  [][ /\ RecoveryOrder
      /\ RecoveryFails => pc' = "cold_start"
      /\ wr'.reconnects <= 1 ]_vars

\* C24 (amended): the steps of a call come in that order; a failure of
\* reconnect() or of the retry is followed by the fresh start when the
\* attempt counter is still below 10, and by the propagation of that
\* failure's error when it is not; the operation is invoked at most 3 times,
\* and reconnect() at most once after the operation first ran, besides at
\* most one call made by the pre-operation check.
C24_RecoverySequenceWithinBudget ==
  [][ /\ RecoveryOrder
      /\ RecoveryFails =>
           IF reconnectAttempts' < maxReconnectAttempts
           THEN pc' = "cold_start"
           ELSE pc' = "idle" /\ wr'.result = "threw" /\ wr'.thrown.at # 1
      /\ wr'.reconnectsAfterOp <= 1
      /\ wr'.reconnects <= wr'.reconnectsAfterOp + 1 ]_vars

\* C24 witness: a call whose pre-operation check reconnected, whose
\* operation, retry and retry after the fresh start all threw.
C24_Witness ==
  /\ pc = "idle" /\ wr.result = "threw"
  /\ wr.opCalls = 3
  /\ wr.reconnects = 2 /\ wr.reconnectsAfterOp = 1
  /\ wr.thrown.at = 2

(***************************************************************************)
(* C25  the attempt budget                                                 *)
(***************************************************************************)
\* C25: reconnectAttempts is between 0 and 10 in every state; and when the
\* operation throws a transient error while the counter is 10, the call
\* throws that error at once: no wait, no reconnect(), no retry, no fresh
\* start, the connection and the health cache left as they were.
C25_BudgetBoundsTheCounter ==
  [][ /\ reconnectAttempts \in 0..maxReconnectAttempts
      /\ reconnectAttempts' \in 0..maxReconnectAttempts
      /\ ( /\ pc = "operation" /\ pc' # "operation"
            /\ reconnectAttempts = maxReconnectAttempts
            /\ isConnectionError(wr'.error.msg) )
          => /\ pc' = "idle" /\ wr'.result = "threw"
             /\ wr'.thrown = wr'.error
             /\ wr'.opCalls = 1
             /\ wr'.reconnectsAfterOp = 0
             /\ UNCHANGED <<connVars, healthVars, isReconnecting>> ]_vars

\* C25 witness: a call threw the transient error of its operation with the
\* counter at 10.
C25_Witness ==
  /\ pc = "idle" /\ wr.result = "threw"
  /\ reconnectAttempts = maxReconnectAttempts
  /\ isConnectionError(wr.error.msg)
  /\ wr.thrown = wr.error

(***************************************************************************)
(* C26  the backoff delay                                                  *)
(***************************************************************************)
BACKOFF_BASE_MS == 300
BACKOFF_CAP_MS == 2000

\* min(300 * 1.3^(n-1), 2000) in whole milliseconds, n = 1..10.
BackoffTable == <<300, 390, 507, 659, 856, 1113, 1448, 1882, 2000, 2000>>

\* C26: the delay waited before reconnect() is min(300 * 1.3^(n-1), 2000) ms
\* for the counter n after the increment, n in 1..10: 300 ms at n = 1, never
\* below 300 ms, never above 2000 ms, and not decreasing in n.
C26_BackoffDelay ==
  /\ pc = "reconnect" => reconnectAttempts \in 1..maxReconnectAttempts
  /\ BackoffDelay(1) = BACKOFF_BASE_MS
  /\ \A n \in 1..maxReconnectAttempts :
       /\ BackoffDelay(n) = BackoffTable[n]
       /\ BackoffDelay(n) >= BACKOFF_BASE_MS
       /\ BackoffDelay(n) <= BACKOFF_CAP_MS
       /\ n > 1 => BackoffDelay(n) >= BackoffDelay(n - 1)

\* C26 witness: a call is about to wait the capped delay, the counter being
\* 10 after the increment.
C26_Witness ==
  /\ pc = "reconnect"
  /\ reconnectAttempts = maxReconnectAttempts
  /\ BackoffDelay(reconnectAttempts) = BACKOFF_CAP_MS

(***************************************************************************)
(* C27-C28  the in-page status rules                                       *)
(***************************************************************************)
\* Transition rules 1 to 5 as stated, on the signals of a page.
Rule1(p) == p.stop
Rule2(p) == p.spinner \/ p.thinking
Rule3(p) == p.working /\ ~p.followUp
Rule4(p) == (p.steps \/ p.finished) /\ ~p.stop
Rule5(p) == p.sources /\ ~p.working

AnyRule(p) == Rule1(p) \/ Rule2(p) \/ Rule3(p) \/ Rule4(p) \/ Rule5(p)

\* The outcome of the first of rules 1 to 5 that applies.
FirstRuleOutcome(p) ==
  IF Rule1(p) \/ Rule2(p) \/ Rule3(p) THEN "working" ELSE "completed"

\* C27: on every poll of a page on which one of rules 1 to 5 applies, the
\* in-page status is the outcome of the first rule that applies: stop
\* affordance, loading or thinking indicator, in-progress phrases without
\* follow-up affordance (working); steps-completed or finished marker
\* without stop affordance, reviewed-sources marker without in-progress
\* phrases (completed).
C27_FirstApplicableRule ==
  (Polled /\ AnyRule(page)) => inPageStatus = FirstRuleOutcome(page)

\* C27 witness: a poll of a page that shows in-progress phrases without the
\* follow-up affordance, and the steps-completed and reviewed-sources
\* markers: rule 3 comes first.
C27_Witness ==
  /\ Polled
  /\ ~Rule1(page) /\ ~Rule2(page)
  /\ Rule3(page) /\ Rule4(page) /\ page.sources
  /\ inPageStatus = "working"

\* C28 (as claimed): on every poll of a page on which none of rules 1 to 5
\* applies, the in-page status is completed if the page shows the follow-up
\* affordance and substantial content and no stop affordance, and idle
\* otherwise.
C28_FollowUpOrIdle ==
  (Polled /\ ~AnyRule(page)) =>
    inPageStatus = IF page.followUp /\ hasProseContent(page) /\ ~page.stop
                   THEN "completed" ELSE "idle"

(***************************************************************************)
(* C29-C30  the stability counter over consecutive polls                   *)
(***************************************************************************)
\* The poll of this step extracts the text the poll before it extracted.
SameReadAgain ==
  /\ Polled /\ op' = "getAgentStatus"
  /\ agentStatus'.response = agentStatus.response

\* C29 (as claimed): a poll returns isStable = true exactly when it and the
\* poll before it extracted the same text of more than 50 characters; so
\* after a reset the second of two identical reads is the first stable one.
C29_StableOnSecondIdenticalRead ==
  [][ op' = "getAgentStatus" =>
        (agentStatus'.isStable <=>
           (SameReadAgain /\ agentStatus'.response.len > StableMinLen)) ]_vars

\* C30 (as claimed): a poll that extracts a text other than the one the poll
\* before it extracted, the empty text and texts below the floor included,
\* leaves the counter at 0 and the text it extracted as the baseline.
C30_AnyChangeResets ==
  [][ (Polled /\ op' = "getAgentStatus" /\ agentStatus'.response # agentStatus.response)
      => (stableResponseCount' = 0 /\ lastResponseText' = agentStatus'.response) ]_vars

(***************************************************************************)
(* C31-C32  what a refresh leaves in the registry (checked under           *)
(* SpecRefresh)                                                            *)
(***************************************************************************)
\* Ids of the listed page targets whose URL is external.
ListedExternal(tg) ==
  {id \in TabIds : tg[id].type = "page" /\ tg[id].url \in ExternalUrls}

\* Host name of each external URL, as new URL(url).hostname gives it.
Hostname(url) ==
  IF url = U_Shop THEN <<"shop.example">>
  ELSE IF url = U_GitHub THEN <<"git", "hub.com">>
  ELSE <<"hub.com">>

\* C31: after refresh() the registry holds one entry for each listed page
\* target on an external URL and no other entry (entries of targets absent
\* from the listing are gone); an entry the refresh created has purpose
\* agent-browsing and the host name of the URL as its domain; the list
\* returned is the registry content.
C31_RefreshMatchesListing ==
  [][ op' = "refreshTabRegistry" =>
        /\ RegIds(tabRegistry') = ListedExternal(targets)
        /\ Len(tabRegistry') = Cardinality(ListedExternal(targets))
        /\ \A i \in 1..Len(tabRegistry') :
             tabRegistry'[i].id \notin RegIds(tabRegistry) =>
               /\ tabRegistry'[i].purpose = "agent-browsing"
               /\ tabRegistry'[i].url = targets[tabRegistry'[i].id].url
               /\ tabRegistry'[i].domain = Hostname(tabRegistry'[i].url)
        /\ ret'.list = tabRegistry' ]_vars

\* C31 witness: the listing [1: the Perplexity UI, 2: https://shop.example/item]
\* was refreshed: the registry holds exactly tab 2 (external count 1) and is
\* the list returned.
C31_Witness ==
  /\ op = "refreshTabRegistry"
  /\ targets[1] = [type |-> "page", url |-> U_Perplexity]
  /\ targets[2] = [type |-> "page", url |-> U_Shop]
  /\ tabRegistry = <<[id |-> 2, url |-> U_Shop, domain |-> <<"shop.example">>,
                      purpose |-> "agent-browsing"]>>
  /\ ret.list = tabRegistry
  /\ Len(ret.list) = 1

\* C32 (as claimed): when a refresh finds a tracked tab on a domain other
\* than the one recorded at the previous refresh, the entry's purpose is
\* inferred again from the new URL; when the domain is the same the purpose
\* is kept.
C32_DomainChangeReclassifies ==
  [][ op' = "refreshTabRegistry" =>
        \A i \in 1..Len(tabRegistry), j \in 1..Len(tabRegistry') :
          tabRegistry[i].id = tabRegistry'[j].id =>
            tabRegistry'[j].purpose =
              IF tabRegistry'[j].domain # tabRegistry[i].domain
              THEN inferPurpose(tabRegistry'[j].url)
              ELSE tabRegistry[i].purpose ]_vars

(***************************************************************************)
(* C33-C34  sendPrompt (checked under SpecSend)                            *)
(***************************************************************************)
SubmitSteps == <<"enter", "click", "form">>

Ran(step) == \E i \in 1..Len(send.steps) : send.steps[i] = step

\* C33: the Enter key is sent only after the input was found non-empty, and
\* when it was found empty the call throws with nothing dispatched; the
\* click is attempted only after the check that followed the Enter key
\* failed; the form submit is attempted only after the check that followed
\* the click failed too; after a check that passed no further step runs.
C33_SubmissionStepsGuarded ==
  /\ Len(send.steps) <= Len(SubmitSteps)
  /\ send.steps = SubSeq(SubmitSteps, 1, Len(send.steps))
  /\ Len(send.events) <= Len(send.steps)
  /\ Ran("enter") => send.hasContent = "pass"
  /\ send.hasContent = "fail" =>
       /\ send.pc = "idle" /\ send.result = "threw" /\ send.error = E_NoPromptText
       /\ send.steps = <<>> /\ send.events = <<>>
  /\ Ran("click") => send.submitted = "fail"
  /\ Ran("form") => send.submitted = "fail" /\ send.finalCheck = "fail"
  /\ send.submitted = "pass" =>
       send.steps = <<"enter">> /\ send.pc = "idle" /\ send.result = "sent"
  /\ send.finalCheck = "pass" =>
       send.steps = <<"enter", "click">> /\ send.pc = "idle" /\ send.result = "sent"

\* C33 witness: both checks failed and the call went through the three
\* steps, each dispatching its event.
C33_Witness ==
  /\ send.pc = "idle" /\ send.result = "sent"
  /\ send.hasContent = "pass" /\ send.submitted = "fail" /\ send.finalCheck = "fail"
  /\ send.steps = SubmitSteps
  /\ send.events = <<"Enter", "click", "submit">>

\* The element each selector of INPUT_SELECTORS designates.
SurfaceOf(k) == IF k = 1 THEN "ce" ELSE IF k \in 2..4 THEN "ta" ELSE "input"

\* C34 (as claimed): when no input surface is found the call throws the
\* input-not-found error with no text typed and no event sent; and when a
\* surface of any kind in the list is found, the typing script writes the
\* prompt into it and the call goes on to submitPrompt.
C34_FoundSurfaceIsTyped ==
  /\ send.error = E_InputNotFound =>
       /\ send.found = 0 /\ send.result = "threw"
       /\ send.typedInto = "none" /\ send.steps = <<>> /\ send.events = <<>>
  /\ (send.found # 0 /\ send.pc # "type" /\ send.error \notin OpErrors) =>
       /\ send.typedInto = SurfaceOf(send.found)
       /\ send.error # E_TypeFailed

(***************************************************************************)
(* C35  the extraction strategies (checked under SpecExtract)              *)
(***************************************************************************)
\* Strategy (a) as stated: the text after the last steps-completed marker,
\* cut before the nearest end marker that follows it.
AfterLastMarker(body) ==
  IF LastIndexOf(body, "marker") # 0 THEN AfterMarker(body, LastIndexOf(body, "marker"))
  ELSE <<>>

AfterSources(body) ==
  IF IndexOf(body, "sources") # 0 THEN AfterMarker(body, IndexOf(body, "sources")) ELSE <<>>

\* C35 (as claimed): the response is the yield of the first strategy, in
\* the order (a), (b), (c), that gives at least 50 characters, strategy (a)
\* reading after the last steps-completed marker.
C35_FirstStrategyAfterLastMarker ==
  op = "extractResponse" =>
    LET a == AfterLastMarker(ret.body)
        b == AfterSources(ret.body)
        c == LastProse(ret.prose)
    IN  /\ TextLen(a) >= StableMinLen => ret.response = a
        /\ (TextLen(a) < StableMinLen /\ TextLen(b) >= StableMinLen) => ret.response = b
        /\ (TextLen(a) < StableMinLen /\ TextLen(b) < StableMinLen
              /\ TextLen(c) >= StableMinLen) => ret.response = c

(***************************************************************************)
(* C36  connected and the session (checked under SpecSession)              *)
(***************************************************************************)
\* C36 (as claimed): whatever connect, disconnect and reconnect calls have
\* run, connected is true only while the client holds a session, and after
\* a connect() that threw connected is false.
C36_ConnectedOnlyWithSession ==
  /\ connected => client # 0
  /\ (op = "connect" /\ ~ret.returned) => ~connected

(***************************************************************************)
(* C37  the reconnecting flag at the exits of a call (checked under        *)
(* SpecConn)                                                               *)
(***************************************************************************)
\* C37: between calls made one after the other the reconnecting flag is
\* false, whichever way the last call ended; it is set only while the call
\* sleeps before reconnect() or awaits it.
C37_FlagClearedOnExit ==
  /\ pc = "idle" => ~isReconnecting
  /\ isReconnecting => pc = "reconnect"

\* C37 witness: a call has ended by throwing the error of the reconnect()
\* it made after the operation failed, and the flag is clear.
C37_Witness ==
  /\ pc = "idle"
  /\ wr.result = "threw"
  /\ wr.reconnectsAfterOp = 1
  /\ wr.thrown.at = 0
  /\ ~isReconnecting

(***************************************************************************)
(* C38  health checks without a session (checked under SpecHealthSession)  *)
(***************************************************************************)
\* C38 (as claimed): an isConnectionHealthy call made while the client
\* holds no session returns false, whenever the last probe was made.
C38_NoSessionNeverHealthy ==
  (op = "isConnectionHealthy" /\ client = 0) => ~hcLast.result

(***************************************************************************)
(* C39  comet_ask and the response of the previous task (checked under     *)
(* SpecAsk)                                                                *)
(***************************************************************************)
\* C39 (as claimed): a comet_ask call returns response text only if it saw
\* a new response after the prompt was sent (more prose blocks, or a last
\* block that differs from the one captured before), on every return path.
C39_ResponseOnlyWhenNew ==
  (ask.pc = "idle" /\ ask.result = "response") => ask.sawNewResponse

(***************************************************************************)
(* C40  what comet_tabs close passes to closeTab (checked under SpecClose) *)
(***************************************************************************)
\* C40 (as claimed): whatever tabId or domain is given and whatever tabs
\* are open, every target the close action passes to closeTab is a tab of
\* the refreshed registry, recorded there on an external URL.
C40_CloseOnlyRegisteredExternal ==
  op = "comet_tabs_close" =>
    \A id \in closeCalls :
      \E i \in 1..Len(tabRegistry) :
        tabRegistry[i].id = id /\ ~isInternalTab(tabRegistry[i].url)

====
